---- MODULE Spec2Model ----
(***************************************************************************)
(* Verification model of mlir/lib/Dialect/Tensor/IR/TensorOps.cpp: the     *)
(* cast analysis (preservesStaticInformation, canFoldInto*Op, joinShapes,  *)
(* ChainedTensorCast), the extract-from-elements folder, and the slice     *)
(* type inference and folders (extract_slice / insert_slice).              *)
(*                                                                         *)
(* The state is a fragment of IR (ops), the inputs handed to the routine   *)
(* under study (inp) and the values the routines returned so far (ret).    *)
(* Each area of the file has its own specification over these variables.   *)
(***************************************************************************)
EXTENDS Integers, Sequences, FiniteSets, TLC

VARIABLES ops, inp, ret

vars == <<ops, inp, ret>>

\* ------------------------------------------------------------------------
\* Bounds
\* ------------------------------------------------------------------------
\* Largest rank of the tensor types handed to the type-level routines.
MaxRank == 2
\* Number of distinct static extents (multiples of 8) used in cast types.
MaxExtents == 2

\* ------------------------------------------------------------------------
\* Tensor types
\* ------------------------------------------------------------------------
\* ShapedType::kDynamic, the extent sentinel of a dynamic dimension.  The
\* program's value is the smallest int64; any value that is no static extent
\* plays the same role here.
kDynamic == -128

isDynamic(d) == d = kDynamic

StaticExtents == {8 * k : k \in 1..MaxExtents}
DimSet == {kDynamic} \cup StaticExtents

ElementTypes == {"f32", "i32"}
\* 0 is the absent encoding attribute.
Encodings == {0, 1}

\* The null Type (a default-constructed TensorType, "no result").
NullType == [kind |-> "null", shape |-> <<>>, elt |-> "none", enc |-> 0]

UnrankedTensorType(elt) ==
    [kind |-> "unranked", shape |-> <<>>, elt |-> elt, enc |-> 0]

\* RankedTensorType::get(shape, elementType, encoding)
RankedTensorTypeGet(shape, elt, enc) ==
    [kind |-> "ranked", shape |-> shape, elt |-> elt, enc |-> enc]

hasRank(t) == t.kind = "ranked"
getRank(t) == Len(t.shape)
isDynamicDim(t, i) == isDynamic(t.shape[i])
getDimSize(t, i) == t.shape[i]
hasStaticShape(t) == hasRank(t) /\ \A i \in 1..Len(t.shape) : ~isDynamic(t.shape[i])

ShapesOfRank(r, dims) == [1..r -> dims]
ShapesUpTo(maxr, dims) == UNION {ShapesOfRank(r, dims) : r \in 0..maxr}

RankedTypes(maxr, dims, elts, encs) ==
    {RankedTensorTypeGet(s, e, c) : s \in ShapesUpTo(maxr, dims), e \in elts, c \in encs}
TensorTypes(maxr, dims, elts, encs) ==
    RankedTypes(maxr, dims, elts, encs) \cup {UnrankedTensorType(e) : e \in elts}

\* verifyCompatibleShape(Type, Type): unranked is compatible with anything;
\* ranked shapes need equal rank and, per dimension, equal extents or a
\* dynamic one.
verifyCompatibleShape(type1, type2) ==
    IF ~hasRank(type1) \/ ~hasRank(type2) THEN TRUE
    ELSE /\ getRank(type1) = getRank(type2)
         /\ \A i \in 1..getRank(type1) :
               \/ isDynamic(type1.shape[i])
               \/ isDynamic(type2.shape[i])
               \/ type1.shape[i] = type2.shape[i]

\* bool CastOp::areCastCompatible(TypeRange inputs, TypeRange outputs), on
\* one input and one output tensor type
areCastCompatible(a, b) ==
    IF a.elt # b.elt THEN FALSE ELSE verifyCompatibleShape(a, b)

\* ------------------------------------------------------------------------
\* CastOp analysis
\* ------------------------------------------------------------------------
\* Mutant: the static/dynamic test is made in the wrong direction.
preservesStaticInformation_reversed(source, target) ==
    IF ~hasRank(source) \/ ~hasRank(target) THEN FALSE
    ELSE IF source.elt # target.elt THEN FALSE
    ELSE IF getRank(source) # getRank(target) THEN FALSE
    ELSE ~\E i \in 1..getRank(source) :
            isDynamic(source.shape[i]) /\ ~isDynamic(target.shape[i])

\* Mutant: the early return on a rank mismatch is missing; the zip stops at
\* the shorter shape.
preservesStaticInformation_norank(source, target) ==
    IF ~hasRank(source) \/ ~hasRank(target) THEN FALSE
    ELSE IF source.elt # target.elt THEN FALSE
    ELSE LET n == IF getRank(source) < getRank(target)
                  THEN getRank(source) ELSE getRank(target)
         IN ~\E i \in 1..n :
                ~isDynamic(source.shape[i]) /\ isDynamic(target.shape[i])

\* bool preservesStaticInformation(Type source, Type target)
preservesStaticInformation(source, target) ==
    IF ~hasRank(source) \/ ~hasRank(target) THEN FALSE
    ELSE IF source.elt # target.elt THEN FALSE
    ELSE IF getRank(source) # getRank(target) THEN FALSE
    ELSE ~\E i \in 1..getRank(source) :
            ~isDynamic(source.shape[i]) /\ isDynamic(target.shape[i])

\* Mutant: a dynamic dimension of `one` is copied instead of being replaced
\* by the extent of `two`.
joinShapes_keepdyn(one, two) ==
    IF ~hasRank(one) THEN two
    ELSE IF ~hasRank(two) THEN one
    ELSE IF getRank(one) # getRank(two) THEN NullType
    ELSE IF \E i \in 1..getRank(one) :
               /\ ~isDynamicDim(one, i) /\ ~isDynamicDim(two, i)
               /\ getDimSize(one, i) # getDimSize(two, i)
         THEN NullType
    ELSE RankedTensorTypeGet(
             [i \in 1..getRank(one) |-> getDimSize(one, i)], one.elt, 0)

\* Mutant: two different static extents do not abort the join; the extent of
\* `one` is kept.
joinShapes_noconflict(one, two) ==
    IF ~hasRank(one) THEN two
    ELSE IF ~hasRank(two) THEN one
    ELSE IF getRank(one) # getRank(two) THEN NullType
    ELSE RankedTensorTypeGet(
             [i \in 1..getRank(one) |->
                 IF isDynamicDim(one, i) THEN getDimSize(two, i)
                 ELSE getDimSize(one, i)],
             one.elt, 0)

\* Mutant: the join with an unranked `two` is `two`, not `one`.
joinShapes_unranked(one, two) ==
    IF ~hasRank(one) THEN two
    ELSE IF ~hasRank(two) THEN two
    ELSE IF getRank(one) # getRank(two) THEN NullType
    ELSE IF \E i \in 1..getRank(one) :
               /\ ~isDynamicDim(one, i) /\ ~isDynamicDim(two, i)
               /\ getDimSize(one, i) # getDimSize(two, i)
         THEN NullType
    ELSE RankedTensorTypeGet(
             [i \in 1..getRank(one) |->
                 IF isDynamicDim(one, i) THEN getDimSize(two, i)
                 ELSE getDimSize(one, i)],
             one.elt, 0)

\* static TensorType joinShapes(TensorType one, TensorType two)
joinShapes(one, two) ==
    IF ~hasRank(one) THEN two
    ELSE IF ~hasRank(two) THEN one
    ELSE IF getRank(one) # getRank(two) THEN NullType
    ELSE IF \E i \in 1..getRank(one) :
               /\ ~isDynamicDim(one, i) /\ ~isDynamicDim(two, i)
               /\ getDimSize(one, i) # getDimSize(two, i)
         THEN NullType
    ELSE RankedTensorTypeGet(
             [i \in 1..getRank(one) |->
                 IF isDynamicDim(one, i) THEN getDimSize(two, i)
                 ELSE IF isDynamicDim(two, i) THEN getDimSize(one, i)
                 ELSE getDimSize(one, i)],
             one.elt, 0)

\* ret maps the calls made so far, <<routine, argument>>, to what they
\* returned.  Record adds a call to the ones already made; Return keeps the
\* last call only.
NoRet == <<>>
Called(fn, arg) == <<fn, arg>> \in DOMAIN ret
Result(fn, arg) == ret[<<fn, arg>>]
Record(fn, arg, val) == ret' = (<<fn, arg>> :> val) @@ ret
Return(fn, arg, val) == ret' = (<<fn, arg>> :> val)

\* ------------------------------------------------------------------------
\* The IR: ops maps the name of an SSA value to the operation defining it.
\* A block argument is the operation "arg".
\* ------------------------------------------------------------------------
\* A null Operation* / Value.
NullOp == "null"

BlockArgument(type) == [op |-> "arg", source |-> NullOp, type |-> type]
\* tensor.cast %source : ... to type
CastOp(source, type) == [op |-> "cast", source |-> source, type |-> type]

\* Value::getDefiningOp<OpTy>()
getDefiningOp(g, v, kind) ==
    IF v \in DOMAIN g /\ g[v].op = kind THEN v ELSE NullOp

OpsOfKind(g, kind) == {v \in DOMAIN g : g[v].op = kind}

\* Mutant: the two arguments of the check are exchanged.
canFoldIntoConsumerOp_swapped(castOp) ==
    IF castOp = NullOp THEN FALSE
    ELSE preservesStaticInformation(ops[ops[castOp].source].type,
                                    ops[castOp].type)

\* bool canFoldIntoConsumerOp(CastOp castOp)
canFoldIntoConsumerOp(castOp) ==
    IF castOp = NullOp THEN FALSE
    ELSE preservesStaticInformation(ops[castOp].type,
                                    ops[ops[castOp].source].type)

\* bool canFoldIntoProducerOp(CastOp castOp)
canFoldIntoProducerOp(castOp) ==
    IF castOp = NullOp THEN FALSE
    ELSE preservesStaticInformation(ops[ops[castOp].source].type,
                                    ops[castOp].type)

\* Mutant: the comparison of the three-way join with the two-way join is
\* missing.
ChainedTensorCastMatches_nocompare(sourceType, intermediateType, resultType) ==
    joinShapes(joinShapes(sourceType, intermediateType), resultType) # NullType

\* ChainedTensorCast::matchAndRewrite, the checks made on the three types
\* once the operand is known to be a cast.
ChainedTensorCastMatches(sourceType, intermediateType, resultType) ==
    LET firstJoin ==
            joinShapes(joinShapes(sourceType, intermediateType), resultType)
        newJoin == joinShapes(sourceType, resultType)
    IN IF firstJoin = NullType THEN FALSE
       ELSE IF firstJoin # newJoin THEN FALSE
       ELSE TRUE

\* ChainedTensorCast::matchAndRewrite on the cast tensorCast: the graph
\* after the call and whether the pattern matched.
ChainedTensorCast(g, tensorCast) ==
    LET tensorCastOperand == getDefiningOp(g, g[tensorCast].source, "cast")
    IN IF tensorCastOperand = NullOp
       THEN [status |-> "failure", post |-> g]
       ELSE IF ~ChainedTensorCastMatches(g[g[tensorCastOperand].source].type,
                                         g[tensorCastOperand].type,
                                         g[tensorCast].type)
       THEN [status |-> "failure", post |-> g]
       ELSE \* replaceOpWithNewOp<CastOp>(tensorCast, resultType, operand)
            [status |-> "success",
             post |-> [g EXCEPT ![tensorCast] =
                          CastOp(g[tensorCastOperand].source, g[tensorCast].type)]]

\* ------------------------------------------------------------------------
\* Specification of the cast patterns: a verified chain of two casts
\*   %c1 = tensor.cast %x : S to I,  %c2 = tensor.cast %c1 : I to R
\* ------------------------------------------------------------------------
CastTypes == TensorTypes(MaxRank, DimSet, {"f32"}, Encodings)

CastChain(S, I, R) ==
    ("x" :> BlockArgument(S)) @@ ("c1" :> CastOp("x", I)) @@ ("c2" :> CastOp("c1", R))

InitCast ==
    /\ \E S \in CastTypes, I \in CastTypes, R \in CastTypes :
          /\ areCastCompatible(S, I)
          /\ areCastCompatible(I, R)
          /\ ops = CastChain(S, I, R)
    /\ inp = <<>>
    /\ ret = NoRet

\* The rewrite driver applies ChainedTensorCast to a cast of the graph.
ApplyChainedTensorCast ==
    \E c \in OpsOfKind(ops, "cast") :
        LET r == ChainedTensorCast(ops, c)
        IN /\ ops' = r.post
           /\ Return("ChainedTensorCast", c,
                     [status |-> r.status, pre |-> ops, post |-> r.post])
           /\ UNCHANGED inp

\* A client asks whether a cast (or a null cast) folds into its consumer.
CallCanFoldIntoConsumerOp ==
    \E c \in OpsOfKind(ops, "cast") \cup {NullOp} :
        /\ Return("canFoldIntoConsumerOp", c, canFoldIntoConsumerOp(c))
        /\ UNCHANGED <<ops, inp>>

\* A client asks whether a cast (or a null cast) folds into its producer.
CallCanFoldIntoProducerOp ==
    \E c \in OpsOfKind(ops, "cast") \cup {NullOp} :
        /\ Return("canFoldIntoProducerOp", c, canFoldIntoProducerOp(c))
        /\ UNCHANGED <<ops, inp>>

NextCast ==
    \/ ApplyChainedTensorCast
    \/ CallCanFoldIntoConsumerOp
    \/ CallCanFoldIntoProducerOp

SpecCast == InitCast /\ [][NextCast]_vars

\* ------------------------------------------------------------------------
\* ExtractOp
\* ------------------------------------------------------------------------
\* An OpFoldResult / constant-folded operand: a compile-time integer
\* attribute, or a runtime value (a null attribute among fold's operands).
IndexAttr(n) == [k |-> "attr", n |-> n, id |-> NullOp]
ValueRef(id) == [k |-> "value", n |-> 0, id |-> id]
isConstant(ofr) == ofr.k = "attr"

\* What a folder returns: an existing value, an attribute, or nothing.
FoldToValue(v) == [kind |-> "value", v |-> v]
FoldToAttr(a) == [kind |-> "attr", v |-> a]
NoFold == [kind |-> "none", v |-> NullOp]
\* The fold read outside an array and the program stopped.
FoldTrap == [kind |-> "trap", v |-> NullOp]

\* tensor.from_elements %elements... : type
FromElementsOp(elements, type) ==
    [op |-> "from_elements", elements |-> elements, type |-> type]
\* arith.constant dense<value> : type, a splat
SplatConstantOp(value, type) == [op |-> "splat", value |-> value, type |-> type]
\* tensor.extract %tensor[%indices...]
ExtractOp(tensor, indices) ==
    [op |-> "extract", tensor |-> tensor, indices |-> indices]

\* The width of int in the model; the program's int has 32 bits.
IntBits == 8

RECURSIVE Pow2(_)
Pow2(w) == IF w = 0 THEN 1 ELSE 2 * Pow2(w - 1)

\* The conversion of an integer to int: its value modulo 2^IntBits in
\* [-2^(IntBits-1), 2^(IntBits-1)).
ToInt(x) == ((x + Pow2(IntBits - 1)) % Pow2(IntBits)) - Pow2(IntBits - 1)

\* Mutant: flatIndex and stride are accumulated without being narrowed to
\* int.
RECURSIVE FlatIndexLoop_nowrap(_, _, _, _, _)
FlatIndexLoop_nowrap(shape, indices, i, flatIndex, stride) ==
    IF i < 1 THEN flatIndex
    ELSE LET stride2 == IF i < Len(shape) THEN stride * shape[i] ELSE stride
         IN FlatIndexLoop_nowrap(shape, indices, i - 1,
                                 flatIndex + indices[i] * stride2, stride2)

\* The loop of ExtractOp::fold over i = rank-1 .. 0 (here rank .. 1) that
\* accumulates flatIndex and stride.  The two are C ints: the products and
\* sums are formed in 64 bits and narrowed to int when they are stored.
RECURSIVE FlatIndexLoop(_, _, _, _, _)
FlatIndexLoop(shape, indices, i, flatIndex, stride) ==
    IF i < 1 THEN flatIndex
    ELSE LET stride2 == IF i < Len(shape) THEN ToInt(stride * shape[i]) ELSE stride
         IN FlatIndexLoop(shape, indices, i - 1,
                          ToInt(flatIndex + indices[i] * stride2), stride2)

\* Mutant: a negative flat index is not rejected; the read before the
\* first element yields the stray value -1.
ExtractOpFold_nonegative(g, extract) ==
    LET tensor == g[extract].tensor
        idx == g[extract].indices
    IN IF g[tensor].op = "splat" THEN FoldToAttr(g[tensor].value)
       ELSE IF \E i \in 1..Len(idx) : ~isConstant(idx[i]) THEN NoFold
       ELSE IF getDefiningOp(g, tensor, "from_elements") # NullOp
       THEN LET shape == g[tensor].type.shape
                indices == [i \in 1..Len(idx) |-> idx[i].n]
                flatIndex == FlatIndexLoop(shape, indices, Len(shape), 0, 1)
            IN IF Len(g[tensor].elements) <= flatIndex
               THEN NoFold
               ELSE IF flatIndex < 0 THEN FoldToValue(-1)
               ELSE FoldToValue(g[tensor].elements[flatIndex + 1])
       ELSE NoFold

\* OpFoldResult ExtractOp::fold(ArrayRef<Attribute> operands).  The tensor
\* operand folds to an attribute only when a splat constant defines it; the
\* graphs below hold no dense non-splat constant, so the last branch (a
\* lookup in an ElementsAttr) returns no fold.
ExtractOpFold(g, extract) ==
    LET tensor == g[extract].tensor
        idx == g[extract].indices
    IN IF g[tensor].op = "splat" THEN FoldToAttr(g[tensor].value)
       ELSE IF \E i \in 1..Len(idx) : ~isConstant(idx[i]) THEN NoFold
       ELSE IF getDefiningOp(g, tensor, "from_elements") # NullOp
       THEN LET shape == g[tensor].type.shape
                indices == [i \in 1..Len(idx) |-> idx[i].n]
                flatIndex == FlatIndexLoop(shape, indices, Len(shape), 0, 1)
            IN IF Len(g[tensor].elements) <= flatIndex \/ flatIndex < 0
               THEN NoFold
               ELSE FoldToValue(g[tensor].elements[flatIndex + 1])
       ELSE NoFold

\* ------------------------------------------------------------------------
\* Specification of the extract folder: %e = tensor.extract %t[indices]
\* where %t is a from_elements of static shape, a splat constant or a block
\* argument, and each index is a constant or a runtime value.
\* ------------------------------------------------------------------------
\* Largest rank and largest extent of the extracted-from tensor.
MaxExtractRank == 2
MaxExtractDim == 3

ExtractShapes == ShapesUpTo(MaxExtractRank, 1..MaxExtractDim)

RECURSIVE Product(_, _)
Product(shape, i) == IF i > Len(shape) THEN 1 ELSE shape[i] * Product(shape, i + 1)
getNumElements(shape) == Product(shape, 1)

\* The operands of from_elements: value 100 + k is the k-th element.
ElementValues(n) == [k \in 1..n |-> 100 + (k - 1)]

\* Constant indices, in and out of range, among them the first two that
\* do not fit a nonnegative int, and one runtime index.
ExtractIndices ==
    {IndexAttr(n) : n \in (-1)..MaxExtractDim}
    \cup {IndexAttr(Pow2(IntBits - 1)), IndexAttr(Pow2(IntBits))}
    \cup {ValueRef("n")}

InitExtract ==
    /\ \E shape \in ExtractShapes, kind \in {"from_elements", "splat", "arg"} :
          \E indices \in [1..Len(shape) -> ExtractIndices] :
             LET type == RankedTensorTypeGet(shape, "f32", 0)
                 t == CASE kind = "from_elements" ->
                             FromElementsOp(ElementValues(getNumElements(shape)), type)
                        [] kind = "splat" -> SplatConstantOp(7, type)
                        [] OTHER -> BlockArgument(type)
             IN ops = ("t" :> t) @@ ("e" :> ExtractOp("t", indices))
    /\ inp = <<>>
    /\ ret = NoRet

\* The folder is run on the extract.
FoldExtract ==
    /\ Return("ExtractOp::fold", "e", ExtractOpFold(ops, "e"))
    /\ UNCHANGED <<ops, inp>>

NextExtract == FoldExtract

SpecExtract == InitExtract /\ [][NextExtract]_vars

\* ------------------------------------------------------------------------
\* ExtractSliceOp: result type inference
\* ------------------------------------------------------------------------
\* dispatchIndexOpFoldResults: the static array of a mixed list holds the
\* integer of an attribute entry and kDynamic for a runtime value.
StaticEntries(mixed) ==
    [i \in 1..Len(mixed) |-> IF isConstant(mixed[i]) THEN mixed[i].n ELSE kDynamic]

\* ExtractSliceOp::inferResultType on the static arrays: the shape is the
\* static sizes, the element type that of the source, no encoding.
inferResultType(sourceType, staticOffsets, staticSizes, staticStrides) ==
    RankedTensorTypeGet(staticSizes, sourceType.elt, 0)

\* getPositionsOfShapeOne(rank, shape): the positions of the leading-most
\* `rank` unit extents of shape.
getPositionsOfShapeOne(rank, shape) ==
    {pos \in 1..Len(shape) :
        /\ shape[pos] = 1
        /\ Cardinality({q \in 1..(pos - 1) : shape[q] = 1}) < rank}

\* The loop that copies shape[pos] for every pos from..Len(shape) for
\* which the bit of dimsToProject is not set.
RECURSIVE ProjectShape(_, _, _)
ProjectShape(shape, dimsToProject, pos) ==
    IF pos > Len(shape) THEN <<>>
    ELSE IF pos \notin dimsToProject
         THEN <<shape[pos]>> \o ProjectShape(shape, dimsToProject, pos + 1)
         ELSE ProjectShape(shape, dimsToProject, pos + 1)

\* Mutant: the test of the bit vector is inverted, the projected
\* dimensions are the ones kept.
inferCanonicalRankReducedResultType_inverted(desiredResultRank, sourceType, offsets, sizes, strides) ==
    LET inferredType == inferResultType(sourceType, offsets, sizes, strides)
        rankDiff == getRank(inferredType) - desiredResultRank
    IN IF rankDiff > 0
       THEN LET shape == inferredType.shape
                dimsToProject == getPositionsOfShapeOne(rankDiff, shape)
            IN RankedTensorTypeGet(
                   ProjectShape(shape, (1..Len(shape)) \ dimsToProject, 1),
                   inferredType.elt, 0)
       ELSE inferredType

\* ExtractSliceOp::inferCanonicalRankReducedResultType on static arrays
inferCanonicalRankReducedResultType(desiredResultRank, sourceType, offsets, sizes, strides) ==
    LET inferredType == inferResultType(sourceType, offsets, sizes, strides)
        rankDiff == getRank(inferredType) - desiredResultRank
    IN IF rankDiff > 0
       THEN LET shape == inferredType.shape
                dimsToProject == getPositionsOfShapeOne(rankDiff, shape)
            IN RankedTensorTypeGet(ProjectShape(shape, dimsToProject, 1),
                                   inferredType.elt, 0)
       ELSE inferredType

\* ------------------------------------------------------------------------
\* Specification of the rank-reduced type inference: the inputs are the
\* desired rank, the source type and the static offsets, sizes and strides.
\* ------------------------------------------------------------------------
\* Largest rank of a sliced tensor, and the number of non-unit extents
\* (multiples of 6) its sizes are drawn from.
MaxSliceRank == 3
MaxSliceExtents == 1

SliceExtents == {1} \cup {6 * k : k \in 1..MaxSliceExtents}

InitInfer ==
    /\ \E r \in 0..MaxSliceRank :
          \E sizes \in [1..r -> SliceExtents \cup {kDynamic}],
             offsets \in {[i \in 1..r |-> 0], [i \in 1..r |-> kDynamic]},
             desiredResultRank \in 0..(MaxSliceRank + 1) :
             inp = [desiredResultRank |-> desiredResultRank,
                    sourceType |-> RankedTensorTypeGet(
                        [i \in 1..r |-> 6 * MaxSliceExtents], "f32", 0),
                    offsets |-> offsets,
                    sizes |-> sizes,
                    strides |-> [i \in 1..r |-> 1]]
    /\ ops = <<>>
    /\ ret = NoRet

CallInferCanonicalRankReducedResultType ==
    /\ ~Called("inferCanonicalRankReducedResultType", "inp")
    /\ Record("inferCanonicalRankReducedResultType", "inp",
              inferCanonicalRankReducedResultType(
                  inp.desiredResultRank, inp.sourceType,
                  inp.offsets, inp.sizes, inp.strides))
    /\ UNCHANGED <<ops, inp>>

NextInfer == CallInferCanonicalRankReducedResultType

SpecInfer == InitInfer /\ [][NextInfer]_vars

\* ------------------------------------------------------------------------
\* ExtractSliceOp and InsertSliceOp folders
\* ------------------------------------------------------------------------
IndexType == [kind |-> "index", shape |-> <<>>, elt |-> "index", enc |-> 0]

\* arith.constant n : index
ConstantIndexOp(n) == [op |-> "constant", value |-> n, type |-> IndexType]

\* tensor.extract_slice %source[offsets] [sizes] [strides] : ... to type
ExtractSliceOp(source, offsets, sizes, strides, type) ==
    [op |-> "extract_slice", source |-> source, offsets |-> offsets,
     sizes |-> sizes, strides |-> strides, type |-> type]

\* tensor.insert_slice %source into %dest[offsets] [sizes] [strides]; the
\* result type is the type of %dest.
InsertSliceOp(source, dest, offsets, sizes, strides, type) ==
    [op |-> "insert_slice", source |-> source, dest |-> dest,
     offsets |-> offsets, sizes |-> sizes, strides |-> strides, type |-> type]

\* Optional<int64_t> getConstantIntValue(OpFoldResult): the integer of an
\* attribute or of a value defined by a constant, as a sequence of length
\* one; the empty sequence for llvm::None.
getConstantIntValue(g, ofr) ==
    IF isConstant(ofr) THEN <<ofr.n>>
    ELSE IF g[ofr.id].op = "constant" THEN <<g[ofr.id].value>>
    ELSE <<>>

\* foldIdentityOffsetSizeAndStrideOpInterface(op, shapedType): succeeds when
\* the offsets are the constant 0, the sizes the extents of shapedType (the
\* zip stops at the shorter of the two) and the strides the constant 1.
foldIdentityOffsetSizeAndStrideOpInterface(g, op, shapedType) ==
    LET shape == shapedType.shape
        n == IF Len(g[op].sizes) < Len(shape) THEN Len(g[op].sizes) ELSE Len(shape)
    IN /\ \A i \in 1..Len(g[op].offsets) :
             getConstantIntValue(g, g[op].offsets[i]) = <<0>>
       /\ \A i \in 1..n :
             getConstantIntValue(g, g[op].sizes[i]) = <<shape[i]>>
       /\ \A i \in 1..Len(g[op].strides) :
             getConstantIntValue(g, g[op].strides[i]) = <<1>>

\* OffsetSizeAndStrideOpInterface::isSameAs with the comparator a == b:
\* the two operations have the same mixed offsets, sizes and strides.
isSameAs(g, a, b) ==
    /\ g[a].offsets = g[b].offsets
    /\ g[a].sizes = g[b].sizes
    /\ g[a].strides = g[b].strides

\* static Value foldExtractAfterInsertSlice(ExtractSliceOp extractOp)
foldExtractAfterInsertSlice(g, extractOp) ==
    LET insertOp == getDefiningOp(g, g[extractOp].source, "insert_slice")
    IN IF /\ insertOp # NullOp
          /\ g[g[insertOp].source].type = g[extractOp].type
          /\ isSameAs(g, insertOp, extractOp)
       THEN g[insertOp].source
       ELSE NullOp

\* SplatElementsAttr::resizeSplat(type)
resizeSplat(value, type) == [splat |-> value, type |-> type]

\* Mutant: the extract-after-insert fold is tried before the identity fold.
ExtractSliceOpFold_reordered(g, op) ==
    IF g[g[op].source].op = "splat" /\ hasStaticShape(g[op].type)
    THEN FoldToAttr(resizeSplat(g[g[op].source].value, g[op].type))
    ELSE IF foldExtractAfterInsertSlice(g, op) # NullOp
    THEN FoldToValue(foldExtractAfterInsertSlice(g, op))
    ELSE IF /\ g[g[op].source].type = g[op].type
            /\ foldIdentityOffsetSizeAndStrideOpInterface(g, op, g[op].type)
    THEN FoldToValue(g[op].source)
    ELSE NoFold

\* OpFoldResult ExtractSliceOp::fold(ArrayRef<Attribute> operands)
ExtractSliceOpFold(g, op) ==
    IF g[g[op].source].op = "splat" /\ hasStaticShape(g[op].type)
    THEN FoldToAttr(resizeSplat(g[g[op].source].value, g[op].type))
    ELSE IF /\ g[g[op].source].type = g[op].type
            /\ foldIdentityOffsetSizeAndStrideOpInterface(g, op, g[op].type)
    THEN FoldToValue(g[op].source)
    ELSE IF foldExtractAfterInsertSlice(g, op) # NullOp
    THEN FoldToValue(foldExtractAfterInsertSlice(g, op))
    ELSE NoFold

\* Mutant: the types of the two inserted sources are not compared.
foldInsertAfterInsertSlice_notype(g, insertOp) ==
    LET prevInsertOp == getDefiningOp(g, g[insertOp].dest, "insert_slice")
    IN ~ ( \/ prevInsertOp = NullOp
           \/ ~isSameAs(g, prevInsertOp, insertOp) )

\* static LogicalResult foldInsertAfterInsertSlice(InsertSliceOp insertOp):
\* whether it succeeds; on success the destination is re-pointed.
foldInsertAfterInsertSlice(g, insertOp) ==
    LET prevInsertOp == getDefiningOp(g, g[insertOp].dest, "insert_slice")
    IN ~ ( \/ prevInsertOp = NullOp
           \/ g[g[prevInsertOp].source].type # g[g[insertOp].source].type
           \/ ~isSameAs(g, prevInsertOp, insertOp) )

\* static Value foldInsertAfterExtractSlice(InsertSliceOp insertOp)
foldInsertAfterExtractSlice(g, insertOp) ==
    LET extractOp == getDefiningOp(g, g[insertOp].source, "extract_slice")
    IN IF \/ extractOp = NullOp
          \/ g[extractOp].source # g[insertOp].dest
          \/ ~isSameAs(g, extractOp, insertOp)
       THEN NullOp
       ELSE g[extractOp].source

\* OpFoldResult InsertSliceOp::fold(ArrayRef<Attribute>): what it returns
\* and the graph it leaves.
InsertSliceOpFold(g, op) ==
    IF /\ hasStaticShape(g[g[op].source].type)
       /\ hasStaticShape(g[op].type)
       /\ g[g[op].source].type = g[op].type
       /\ foldIdentityOffsetSizeAndStrideOpInterface(g, op, g[op].type)
    THEN [result |-> FoldToValue(g[op].source), post |-> g]
    ELSE IF foldInsertAfterInsertSlice(g, op)
    THEN \* insertOp.getDestMutable().assign(prevInsertOp.getDest())
         [result |-> FoldToValue(op),
          post |-> [g EXCEPT ![op].dest = g[g[op].dest].dest]]
    ELSE IF foldInsertAfterExtractSlice(g, op) # NullOp
    THEN [result |-> FoldToValue(foldInsertAfterExtractSlice(g, op)), post |-> g]
    ELSE [result |-> NoFold, post |-> g]

\* ------------------------------------------------------------------------
\* Specification of the slice folders, on the verified graph
\*   %x = block argument | splat constant | insert_slice %s into %d [..]
\*   %e = tensor.extract_slice %x [offsets] [sizes] [strides]
\*   %y = tensor.insert_slice %e into (%x | %d) [..]
\* Offsets, sizes and strides are attributes or the index values %cN (a
\* constant), %n and %m (block arguments).
\* ------------------------------------------------------------------------
\* Largest rank of the tensors that are sliced and folded.
MaxFoldRank == 2

IndexValues ==
    ("cN" :> ConstantIndexOp(6))
    @@ ("n" :> BlockArgument(IndexType)) @@ ("m" :> BlockArgument(IndexType))

SliceOffsets == {IndexAttr(0), ValueRef("n")}
SliceSizes == {IndexAttr(d) : d \in SliceExtents} \cup {ValueRef("cN")}
SliceStrides == {IndexAttr(1), IndexAttr(2)}

\* The result types an extract_slice with these sizes may declare: the
\* inferred type and its canonical reduction by one rank.
SliceResultTypes(sourceType, sizes) ==
    LET st == StaticEntries(sizes)
    IN {inferResultType(sourceType, st, st, st)} \cup
       (IF Len(sizes) > 0
        THEN {inferCanonicalRankReducedResultType(Len(sizes) - 1, sourceType, st, st, st)}
        ELSE {})

\* How %x is defined: by nothing (an argument), by a splat constant, or by
\* an insert_slice at the offsets of %e or at other offsets.
ProducerKinds == {"arg", "splat", "insert_same", "insert_other"}

SliceGraph(xType, xKind, sType, offsets, sizes, strides, eType, yOffsets, yDest) ==
    LET other == [i \in 1..Len(offsets) |-> ValueRef("m")]
        x == CASE xKind = "arg" -> BlockArgument(xType)
               [] xKind = "splat" -> SplatConstantOp(7, xType)
               [] xKind = "insert_same" ->
                     InsertSliceOp("s", "d", offsets, sizes, strides, xType)
               [] OTHER ->
                     InsertSliceOp("s", "d", other, sizes, strides, xType)
    IN IndexValues
       @@ ("d" :> BlockArgument(xType))
       @@ ("s" :> BlockArgument(sType))
       @@ ("x" :> x)
       @@ ("e" :> ExtractSliceOp("x", offsets, sizes, strides, eType))
       @@ ("y" :> InsertSliceOp("e", yDest,
                                IF yOffsets = "same" THEN offsets ELSE other,
                                sizes, strides, xType))

InitSliceOfRank(maxRank) ==
    /\ \E r \in 0..maxRank :
          \E xShape \in [1..r -> SliceExtents \cup {kDynamic}],
             offsets \in [1..r -> SliceOffsets],
             sizes \in [1..r -> SliceSizes],
             strides \in [1..r -> SliceStrides],
             xKind \in ProducerKinds,
             y \in {<<"same", "x">>, <<"other", "x">>, <<"same", "d">>} :
             LET xType == RankedTensorTypeGet(xShape, "f32", 0)
             IN \E eType \in SliceResultTypes(xType, sizes),
                   sType \in SliceResultTypes(xType, sizes) :
                   /\ xKind = "splat" => hasStaticShape(xType)
                   /\ xKind # "insert_same" => sType = eType
                   /\ ops = SliceGraph(xType, xKind, sType, offsets, sizes,
                                       strides, eType, y[1], y[2])
    /\ inp = <<>>
    /\ ret = NoRet

InitSlice == InitSliceOfRank(MaxFoldRank)

\* ExtractSliceOp::fold is run on an extract_slice of the graph.
FoldExtractSlice ==
    \E op \in OpsOfKind(ops, "extract_slice") :
        /\ Return("ExtractSliceOp::fold", op,
                  [result |-> ExtractSliceOpFold(ops, op), pre |-> ops])
        /\ UNCHANGED <<ops, inp>>

\* InsertSliceOp::fold is run on an insert_slice of the graph.
FoldInsertSlice ==
    \E op \in OpsOfKind(ops, "insert_slice") :
        LET r == InsertSliceOpFold(ops, op)
        IN /\ ops' = r.post
           /\ Return("InsertSliceOp::fold", op,
                     [result |-> r.result, pre |-> ops])
           /\ UNCHANGED inp

NextSlice == FoldExtractSlice \/ FoldInsertSlice

SpecSlice == InitSlice /\ [][NextSlice]_vars

\* ------------------------------------------------------------------------
\* GatherOp / ScatterOp verification
\* ------------------------------------------------------------------------
\* ArrayRef::drop_back(): the sequence without its last element.
drop_back(s) == SubSeq(s, 1, Len(s) - 1)

\* std::binary_search(dims.begin(), dims.end(), idx).  The verifiers call
\* inferResultType only after verifyGatherOrScatterDims found dims strictly
\* increasing, and on a sorted range the search is a membership test.
binary_search(dims, idx) == \E k \in 1..Len(dims) : dims[k] = idx

\* The loop of GatherOp::inferResultType over idx in [0, source rank).
RECURSIVE GatherShapeLoop(_, _, _, _, _)
GatherShapeLoop(sourceType, gatherDims, rankReduced, idx, resultShape) ==
    IF idx >= getRank(sourceType) THEN resultShape
    ELSE IF binary_search(gatherDims, idx)
         THEN GatherShapeLoop(sourceType, gatherDims, rankReduced, idx + 1,
                              IF ~rankReduced THEN Append(resultShape, 1)
                              ELSE resultShape)
         ELSE GatherShapeLoop(sourceType, gatherDims, rankReduced, idx + 1,
                              Append(resultShape, getDimSize(sourceType, idx + 1)))

\* GatherOp::inferResultType: the builder keeps the element type and the
\* encoding of the source type and replaces the shape.
GatherOpInferResultType(sourceType, indicesType, gatherDims, rankReduced) ==
    RankedTensorTypeGet(
        GatherShapeLoop(sourceType, gatherDims, rankReduced, 0,
                        drop_back(indicesType.shape)),
        sourceType.elt, sourceType.enc)

\* verifyGatherOrScatterDims with >= weakened to > in the ordering test.
verifyGatherOrScatterDims_nonstrict(dims, rank) ==
    IF Len(dims) = 0 THEN FALSE
    ELSE IF Len(dims) > rank THEN FALSE
    ELSE IF \E k \in 1..Len(dims) : dims[k] < 0 \/ dims[k] >= rank THEN FALSE
    ELSE IF \E i \in 2..Len(dims) : dims[i - 1] > dims[i] THEN FALSE
    ELSE TRUE
\* verifyGatherOrScatterDims: TRUE is success().
verifyGatherOrScatterDims(dims, rank) ==
    IF Len(dims) = 0 THEN FALSE
    ELSE IF Len(dims) > rank THEN FALSE
    ELSE IF \E k \in 1..Len(dims) : dims[k] < 0 \/ dims[k] >= rank THEN FALSE
    ELSE IF \E i \in 2..Len(dims) : dims[i - 1] >= dims[i] THEN FALSE
    ELSE TRUE

\* tensor.gather: operand types, the gather_dims attribute, the result type.
GatherOp(sourceType, indicesType, gatherDims, resultType) ==
    [source |-> sourceType, indices |-> indicesType, gather_dims |-> gatherDims,
     result |-> resultType]

\* GatherOp::verify: TRUE is success().
GatherOpVerify(op) ==
    IF ~verifyGatherOrScatterDims(op.gather_dims, getRank(op.source)) THEN FALSE
    ELSE LET expectedResultType ==
                 GatherOpInferResultType(op.source, op.indices, op.gather_dims, FALSE)
             expectedRankReducedResultType ==
                 GatherOpInferResultType(op.source, op.indices, op.gather_dims, TRUE)
         IN  IF op.result # expectedResultType
                /\ op.result # expectedRankReducedResultType
             THEN FALSE
             ELSE TRUE

\* tensor.scatter: operand types, the scatter_dims and unique attributes.
ScatterOp(sourceType, destType, indicesType, scatterDims, unique) ==
    [source |-> sourceType, dest |-> destType, indices |-> indicesType,
     scatter_dims |-> scatterDims, unique |-> unique]

\* ScatterOp::verify without the test of the unique attribute.
ScatterOpVerify_nounique(op) ==
    IF ~verifyGatherOrScatterDims(op.scatter_dims, getRank(op.dest)) THEN FALSE
    ELSE LET expectedSourceType ==
                 GatherOpInferResultType(op.dest, op.indices, op.scatter_dims, FALSE)
             expectedRankReducedSourceType ==
                 GatherOpInferResultType(op.dest, op.indices, op.scatter_dims, TRUE)
         IN  IF op.source # expectedSourceType
                /\ op.source # expectedRankReducedSourceType
             THEN FALSE
             ELSE TRUE
\* ScatterOp::verify: TRUE is success().
ScatterOpVerify(op) ==
    IF ~verifyGatherOrScatterDims(op.scatter_dims, getRank(op.dest)) THEN FALSE
    ELSE IF ~op.unique THEN FALSE
    ELSE LET expectedSourceType ==
                 GatherOpInferResultType(op.dest, op.indices, op.scatter_dims, FALSE)
             expectedRankReducedSourceType ==
                 GatherOpInferResultType(op.dest, op.indices, op.scatter_dims, TRUE)
         IN  IF op.source # expectedSourceType
                /\ op.source # expectedRankReducedSourceType
             THEN FALSE
             ELSE TRUE

\* Specification of the gather verifier: the input is one tensor.gather with
\* an arbitrary gather_dims attribute and a declared result type built from
\* the operand types dimension by dimension (keep the source extent, put 1,
\* or leave the dimension out) behind a choice of leading dimensions.
\* Largest rank of the gather source / scatter dest.
MaxGatherRank == 3
\* Largest length of gather_dims / scatter_dims.
MaxGatherDims == 2

GatherExtents == {1, 3}
GatherIndicesShapes == {<<2>>, <<5, 2>>, <<kDynamic, 1>>}
GatherDimsOf(rank) ==
    UNION {[1..n -> (-1)..rank] : n \in 0..MaxGatherDims}

RECURSIVE Flatten(_)
Flatten(ss) == IF Len(ss) = 0 THEN <<>> ELSE Head(ss) \o Flatten(Tail(ss))

\* The shapes a declared slice type may have.
SliceShapeCandidates(tensorShape, indicesShape) ==
    {lead \o Flatten([i \in 1..Len(tensorShape) |->
                         CASE pick[i] = "keep" -> <<tensorShape[i]>>
                           [] pick[i] = "one"  -> <<1>>
                           [] OTHER            -> <<>>]) :
        lead \in {drop_back(indicesShape), indicesShape, <<>>},
        pick \in [1..Len(tensorShape) -> {"keep", "one", "drop"}]}

SliceTypeCandidates(tensorType, indicesType) ==
    {RankedTensorTypeGet(s, ee[1], ee[2]) :
        s \in SliceShapeCandidates(tensorType.shape, indicesType.shape),
        ee \in {<<tensorType.elt, tensorType.enc>>, <<"i32", tensorType.enc>>,
                <<tensorType.elt, 1>>}}

InitGather ==
    /\ \E r \in 0..MaxGatherRank :
       \E shape \in ShapesOfRank(r, GatherExtents) :
       \E ishape \in GatherIndicesShapes :
       \E dims \in GatherDimsOf(r) :
          LET sourceType == RankedTensorTypeGet(shape, "f32", 0)
              indicesType == RankedTensorTypeGet(ishape, "index", 0)
          IN  \E resultType \in SliceTypeCandidates(sourceType, indicesType) :
                 inp = GatherOp(sourceType, indicesType, dims, resultType)
    /\ ops = <<>>
    /\ ret = NoRet

CallGatherVerify ==
    /\ ~Called("GatherOp::verify", "op")
    /\ Record("GatherOp::verify", "op", GatherOpVerify(inp))
    /\ UNCHANGED <<ops, inp>>

NextGather == CallGatherVerify

SpecGather == InitGather /\ [][NextGather]_vars

\* Specification of the scatter verifier: one tensor.scatter whose dest,
\* indices and scatter_dims are drawn like the gather's source, indices and
\* gather_dims, whose source is drawn like the gather's result, and whose
\* unique attribute is set or not.
\* Largest rank of the scatter dest.
MaxScatterRank == 2

InitScatter ==
    /\ \E r \in 0..MaxScatterRank :
       \E shape \in ShapesOfRank(r, GatherExtents) :
       \E ishape \in GatherIndicesShapes :
       \E dims \in GatherDimsOf(r) :
       \E unique \in BOOLEAN :
          LET destType == RankedTensorTypeGet(shape, "f32", 0)
              indicesType == RankedTensorTypeGet(ishape, "index", 0)
          IN  \E sourceType \in SliceTypeCandidates(destType, indicesType) :
                 inp = ScatterOp(sourceType, destType, indicesType, dims, unique)
    /\ ops = <<>>
    /\ ret = NoRet

CallScatterVerify ==
    /\ ~Called("ScatterOp::verify", "op")
    /\ Record("ScatterOp::verify", "op", ScatterOpVerify(inp))
    /\ UNCHANGED <<ops, inp>>

NextScatter == CallScatterVerify

SpecScatter == InitScatter /\ [][NextScatter]_vars

\* ------------------------------------------------------------------------
\* PadOp verification
\* ------------------------------------------------------------------------
\* The loop of PadOp::inferResultType over i in [0, rank); resultShape is
\* the optional shape hint, empty when absent.
RECURSIVE PadShapeLoop(_, _, _, _, _, _)
PadShapeLoop(sourceType, staticLow, staticHigh, resultShape, i, inferredShape) ==
    IF i >= getRank(sourceType) THEN inferredShape
    ELSE IF \/ isDynamicDim(sourceType, i + 1)
            \/ staticLow[i + 1] = kDynamic
            \/ staticHigh[i + 1] = kDynamic
         THEN PadShapeLoop(sourceType, staticLow, staticHigh, resultShape, i + 1,
                           Append(inferredShape,
                                  IF Len(resultShape) = 0 THEN kDynamic
                                  ELSE resultShape[i + 1]))
         ELSE LET size == getDimSize(sourceType, i + 1) + staticLow[i + 1]
                              + staticHigh[i + 1]
              IN  PadShapeLoop(sourceType, staticLow, staticHigh, resultShape,
                               i + 1, Append(inferredShape, size))

\* PadOp::inferResultType: the inferred type has the element type of the
\* source and no encoding.
PadOpInferResultType(sourceType, staticLow, staticHigh, resultShape) ==
    RankedTensorTypeGet(
        PadShapeLoop(sourceType, staticLow, staticHigh, resultShape, 0, <<>>),
        sourceType.elt, 0)

\* PadOp::verify without the exemption of dynamic inferred extents.
PadOpVerify_noexempt(sourceType, staticLow, staticHigh, resultType) ==
    LET expectedType == PadOpInferResultType(sourceType, staticLow, staticHigh, <<>>)
    IN  \A i \in 1..getRank(sourceType) :
           getDimSize(resultType, i) = getDimSize(expectedType, i)
\* PadOp::verify: TRUE is success().  Every dimension of the source either
\* continues the loop or returns the error.
PadOpVerify(sourceType, staticLow, staticHigh, resultType) ==
    LET expectedType == PadOpInferResultType(sourceType, staticLow, staticHigh, <<>>)
    IN  \A i \in 1..getRank(sourceType) :
           \/ getDimSize(resultType, i) = getDimSize(expectedType, i)
           \/ isDynamicDim(expectedType, i)

\* Specification of the pad verifier: one tensor.pad given by its source
\* type, its static_low and static_high attributes (kDynamic where the
\* width is an operand) and its declared result type of the same rank.
\* Largest rank of the padded tensor.
MaxPadRank == 2

PadSourceExtents == {kDynamic, 2}
PadLowWidths == {kDynamic, 0, 1}
PadHighWidths == {kDynamic, -1, 0}
PadResultExtents == {kDynamic, 1, 2, 3}

InitPad ==
    /\ \E r \in 0..MaxPadRank :
          inp \in [source : {RankedTensorTypeGet(s, "f32", 0) :
                                s \in ShapesOfRank(r, PadSourceExtents)},
                   static_low : ShapesOfRank(r, PadLowWidths),
                   static_high : ShapesOfRank(r, PadHighWidths),
                   result : {RankedTensorTypeGet(s, "f32", 0) :
                                s \in ShapesOfRank(r, PadResultExtents)}]
    /\ ops = <<>>
    /\ ret = NoRet

CallPadVerify ==
    /\ ~Called("PadOp::verify", "op")
    /\ Record("PadOp::verify", "op",
              PadOpVerify(inp.source, inp.static_low, inp.static_high, inp.result))
    /\ UNCHANGED <<ops, inp>>

NextPad == CallPadVerify

SpecPad == InitPad /\ [][NextPad]_vars

\* ------------------------------------------------------------------------
\* FoldOrthogonalPaddings
\* ------------------------------------------------------------------------
\* arith.constant value : type
ConstantOp(value, type) == [op |-> "constant", value |-> value, type |-> type]

\* An operation inside the body of a tensor.pad.
PadBodyOp(type) == [op |-> "pad_body", source |-> NullOp, type |-> type]

\* tensor.pad %source low[low] high[high] { tensor.yield %yield } : ... to
\* type, with or without the nofold attribute.
PadOp(source, low, high, nofold, yield, type) ==
    [op |-> "pad", source |-> source, low |-> low, high |-> high,
     nofold |-> nofold, yield |-> yield, type |-> type]

\* OffsetSizeAndStrideOpInterface::hasUnitStride
hasUnitStride(g, op) ==
    \A i \in 1..Len(g[op].strides) : getConstantIntValue(g, g[op].strides[i]) = <<1>>

\* PadOp::hasZeroLowPad
hasZeroLowPad(g, op) ==
    \A i \in 1..Len(g[op].low) : getConstantIntValue(g, g[op].low[i]) = <<0>>

\* PadOp::getPaddedDims looking at the low widths only.
getPaddedDims_lowonly(g, op) ==
    {i - 1 : i \in {k \in 1..Len(g[op].low) :
                       getConstantIntValue(g, g[op].low[k]) # <<0>>}}
\* PadOp::getPaddedDims: the (0-based) dimensions whose low or high width
\* is not the constant 0; a width that is no constant counts as padded.
getPaddedDims(g, op) ==
    {i - 1 : i \in {k \in 1..Len(g[op].low) :
                       getConstantIntValue(g, g[op].low[k]) # <<0>>}}
    \cup
    {i - 1 : i \in {k \in 1..Len(g[op].high) :
                       getConstantIntValue(g, g[op].high[k]) # <<0>>}}

\* PadOp::getConstantPaddingValue: the yielded value when it is a constant
\* or defined outside of the pad's body, else the null Value.
getConstantPaddingValue(g, op) ==
    LET padValue == g[op].yield
    IN  IF g[padValue].op = "constant" THEN padValue
        ELSE IF g[padValue].op = "pad_body" THEN NullOp
        ELSE padValue

\* matchPattern(value, m_Constant(&attr)): attr as a sequence of length one,
\* empty when the value is not defined by a constant.
matchConstant(g, value) ==
    IF value # NullOp /\ g[value].op = "constant"
    THEN <<[value |-> g[value].value, type |-> g[value].type]>>
    ELSE <<>>

\* Step 6 of FoldOrthogonalPaddings for dimension i (0-based): the combined
\* offset as a sequence of length one, empty when neither pair has zero
\* offset and zero padding.
CombinedOffset(g, innerSliceOp, outerSliceOp, innerDims, outerDims, i) ==
    LET innerOffset == g[innerSliceOp].offsets[i + 1]
        outerOffset == g[outerSliceOp].offsets[i + 1]
    IN  IF i \notin innerDims /\ getConstantIntValue(g, innerOffset) = <<0>>
        THEN <<outerOffset>>
        ELSE IF i \notin outerDims /\ getConstantIntValue(g, outerOffset) = <<0>>
        THEN <<innerOffset>>
        ELSE <<>>

\* The name of an operation created next to the operation `at`.
Created(at, what) == at \o "." \o what

\* FoldOrthogonalPaddings::matchAndRewrite on the pad padOp: whether the
\* pattern matched and the graph after the call.
FoldOrthogonalPaddings(g, padOp) ==
    LET failure == [status |-> "failure", post |-> g]
        innerSliceOp == getDefiningOp(g, g[padOp].source, "extract_slice")
    IN
    IF innerSliceOp = NullOp THEN failure ELSE
    LET outerPadOp == getDefiningOp(g, g[innerSliceOp].source, "pad") IN
    IF outerPadOp = NullOp \/ g[outerPadOp].nofold THEN failure ELSE
    LET outerSliceOp == getDefiningOp(g, g[outerPadOp].source, "extract_slice") IN
    IF outerSliceOp = NullOp THEN failure ELSE
    \* 1) the chain is rank-reducing
    LET rank == getRank(g[g[padOp].source].type) IN
    IF getRank(g[g[outerSliceOp].source].type) # rank THEN failure ELSE
    \* 2) non-unit strides
    IF ~hasUnitStride(g, innerSliceOp) \/ ~hasUnitStride(g, outerSliceOp)
    THEN failure ELSE
    \* 3) non-zero low padding
    IF ~hasZeroLowPad(g, padOp) \/ ~hasZeroLowPad(g, outerPadOp) THEN failure ELSE
    \* 4) the padding values do not match
    LET innerValue == getConstantPaddingValue(g, padOp)
        outerValue == getConstantPaddingValue(g, outerPadOp)
    IN
    IF \/ innerValue = NullOp
       \/ outerValue = NullOp
       \/ matchConstant(g, innerValue) = <<>>
       \/ matchConstant(g, outerValue) = <<>>
       \/ matchConstant(g, innerValue) # matchConstant(g, outerValue)
    THEN failure ELSE
    \* 5) a dimension is padded by both pads
    LET innerDims == getPaddedDims(g, padOp)
        outerDims == getPaddedDims(g, outerPadOp)
    IN
    IF innerDims \cap outerDims # {} THEN failure ELSE
    \* 6) combine the offsets
    LET combined == [i \in 1..rank |->
                        CombinedOffset(g, innerSliceOp, outerSliceOp,
                                       innerDims, outerDims, i - 1)]
    IN
    IF \E i \in 1..rank : combined[i] = <<>> THEN failure ELSE
    LET newOffsets == [i \in 1..rank |-> combined[i][1]]
        sourceShape == g[g[innerSliceOp].source].type.shape
    IN
    \* 7) combine the sizes (the assert that the source extent is static is
    \* compiled out of a release build; a dynamic extent equals no constant)
    IF \E i \in 1..rank :
          /\ (i - 1) \in outerDims
          /\ getConstantIntValue(g, g[innerSliceOp].sizes[i]) # <<sourceShape[i]>>
    THEN failure ELSE
    LET newSizes == [i \in 1..rank |->
                        IF (i - 1) \in outerDims THEN g[outerSliceOp].sizes[i]
                        ELSE g[innerSliceOp].sizes[i]]
        newHighPad == [i \in 1..rank |->
                          IF (i - 1) \in outerDims THEN g[outerPadOp].high[i]
                          ELSE IF (i - 1) \in innerDims THEN g[padOp].high[i]
                          ELSE IndexAttr(0)]
        newSliceOp == Created(padOp, "slice")
        x == g[outerSliceOp].source
    IN  \* create the new extract_slice and the new pad, which takes the
        \* body of padOp, and replace padOp by it
        [status |-> "success",
         post |-> ([g EXCEPT ![padOp] =
                        PadOp(newSliceOp, g[padOp].low, newHighPad,
                              g[padOp].nofold, g[padOp].yield, g[padOp].type)]
                   @@ (newSliceOp :>
                        ExtractSliceOp(x, newOffsets, newSizes,
                                       g[innerSliceOp].strides,
                                       inferResultType(g[x].type,
                                                       StaticEntries(newOffsets),
                                                       StaticEntries(newSizes),
                                                       StaticEntries(g[innerSliceOp].strides)))))]

\* Specification of the pattern: the chain
\*   %os = extract_slice %x, %op = pad %os, %is = extract_slice %op,
\*   %ip = pad %is
\* over a static %x, every dimension drawing its two offsets and its two
\* high widths, and the chain as a whole at most one departure from the
\* form the pattern looks for.  The types are the inferred ones, so that
\* every operation of the chain verifies.
\* Largest rank of the pad chain.
MaxChainRank == 2

F32 == [kind |-> "scalar", shape |-> <<>>, elt |-> "f32", enc |-> 0]

ChainValues ==
    ("pw" :> BlockArgument(IndexType)) @@ ("pv" :> BlockArgument(IndexType))
    @@ ("sz" :> BlockArgument(IndexType))
    @@ ("c0" :> ConstantOp(0, F32)) @@ ("c0b" :> ConstantOp(0, F32))
    @@ ("c1" :> ConstantOp(1, F32)) @@ ("v" :> BlockArgument(F32))
    @@ ("b" :> PadBodyOp(F32))

ChainOffsets == {IndexAttr(0), IndexAttr(4)}
ChainOuterHighPads == {IndexAttr(0), IndexAttr(2), ValueRef("pw")}
ChainInnerHighPads == {IndexAttr(0), ValueRef("pv")}
ChainVariants ==
    {"plain", "innerStride", "outerStride", "innerLow", "outerLow",
     "outerNofold", "innerNofold", "otherConstant", "differentValue",
     "argumentValue", "bodyValue", "sizeMismatch", "rankReducing",
     "noOuterSlice", "noOuterPad"}

\* The size of a slice that is to be padded by `high` up to `extent`.
SizeBelow(extent, offset, high) ==
    IF isConstant(high) THEN IndexAttr(extent - offset.n - high.n)
    ELSE ValueRef("sz")

\* The declared type of a pad: the inferred extents, 8 where they are dynamic.
PadTypeOf(sourceType, low, high) ==
    PadOpInferResultType(sourceType, StaticEntries(low), StaticEntries(high),
                         [i \in 1..getRank(sourceType) |-> 8])

PadChain(r, oOff, oHigh, iOff, iHigh, variant) ==
    LET ones == [i \in 1..r |-> IndexAttr(1)]
        zeros == [i \in 1..r |-> IndexAttr(0)]
        first(seq, v) == [i \in 1..r |-> IF i = 1 THEN v ELSE seq[i]]
        xType == RankedTensorTypeGet([i \in 1..r |-> 16], "f32", 0)
        oSizes == [i \in 1..r |-> SizeBelow(8, IndexAttr(0), oHigh[i])]
        oStrides == IF variant = "outerStride" THEN first(ones, IndexAttr(2)) ELSE ones
        osType == inferResultType(xType, StaticEntries(oOff), StaticEntries(oSizes),
                                  StaticEntries(oStrides))
        oLow == IF variant = "outerLow" THEN first(zeros, IndexAttr(1)) ELSE zeros
        opType == PadTypeOf(osType, oLow, oHigh)
        isSource == IF variant = "noOuterPad" THEN BlockArgument(opType)
                    ELSE PadOp(IF variant = "rankReducing" THEN "or" ELSE "os",
                               oLow, oHigh, variant = "outerNofold",
                               IF variant = "bodyValue" THEN "b" ELSE "c0", opType)
        iSizes == [i \in 1..r |->
                      IF variant = "sizeMismatch" /\ i = 1 THEN IndexAttr(2)
                      ELSE SizeBelow(opType.shape[i], iOff[i], iHigh[i])]
        iStrides == IF variant = "innerStride" THEN first(ones, IndexAttr(2)) ELSE ones
        isType == inferResultType(opType, StaticEntries(iOff), StaticEntries(iSizes),
                                  StaticEntries(iStrides))
        iLow == IF variant = "innerLow" THEN first(zeros, IndexAttr(1)) ELSE zeros
        yield == CASE variant = "otherConstant" -> "c0b"
                   [] variant = "differentValue" -> "c1"
                   [] variant = "argumentValue" -> "v"
                   [] OTHER -> "c0"
    IN  ChainValues
        @@ ("x" :> BlockArgument(xType))
        @@ ("os" :> IF variant = "noOuterSlice" THEN BlockArgument(osType)
                    ELSE ExtractSliceOp("x", oOff, oSizes, oStrides, osType))
        \* the rank-reducing chain takes its slice from a tensor of rank r + 1
        @@ ("y" :> BlockArgument(RankedTensorTypeGet(<<1>> \o xType.shape, "f32", 0)))
        @@ ("or" :> ExtractSliceOp("y", <<IndexAttr(0)>> \o oOff,
                                   <<IndexAttr(1)>> \o oSizes,
                                   <<IndexAttr(1)>> \o oStrides, osType))
        @@ ("op" :> isSource)
        @@ ("is" :> ExtractSliceOp("op", iOff, iSizes, iStrides, isType))
        @@ ("ip" :> PadOp("is", iLow, iHigh, variant = "innerNofold", yield,
                          PadTypeOf(isType, iLow, iHigh)))

InitChain ==
    /\ \E r \in 1..MaxChainRank :
       \E oOff \in [1..r -> ChainOffsets], iOff \in [1..r -> ChainOffsets],
          oHigh \in [1..r -> ChainOuterHighPads],
          iHigh \in [1..r -> ChainInnerHighPads],
          variant \in ChainVariants :
             ops = PadChain(r, oOff, oHigh, iOff, iHigh, variant)
    /\ inp = <<>>
    /\ ret = NoRet

\* The rewrite driver applies FoldOrthogonalPaddings to a pad of the graph.
ApplyFoldOrthogonalPaddings ==
    \E p \in OpsOfKind(ops, "pad") :
        LET r == FoldOrthogonalPaddings(ops, p)
        IN /\ ops' = r.post
           /\ Return("FoldOrthogonalPaddings", p,
                     [status |-> r.status, pre |-> ops, post |-> r.post])
           /\ UNCHANGED inp

NextChain == ApplyFoldOrthogonalPaddings

SpecChain == InitChain /\ [][NextChain]_vars

\* ------------------------------------------------------------------------
\* EmptyOp
\* ------------------------------------------------------------------------
\* tensor.empty(%dynamicSizes) : type
EmptyOp(dynamicSizes, type) ==
    [op |-> "empty", source |-> NullOp, dynamicSizes |-> dynamicSizes,
     type |-> type]

\* RankedTensorType::getNumDynamicDims
getNumDynamicDims(t) == Cardinality({i \in 1..Len(t.shape) : isDynamic(t.shape[i])})

\* EmptyOp::verify: TRUE is success().
EmptyOpVerify(g, op) ==
    IF getNumDynamicDims(g[op].type) # Len(g[op].dynamicSizes) THEN FALSE
    ELSE TRUE

\* The loop of EmptyOp::reifyResultShapes over i in [0, rank): ctr counts
\* the dynamic sizes consumed, shapes collects the value of every dimension
\* and g the constants that were created.
RECURSIVE ReifyLoop(_, _, _, _, _)
ReifyLoop(g, op, i, ctr, shapes) ==
    IF i >= getRank(g[op].type) THEN [values |-> shapes, post |-> g]
    ELSE IF isDynamicDim(g[op].type, i + 1)
         THEN ReifyLoop(g, op, i + 1, ctr + 1,
                        Append(shapes, g[op].dynamicSizes[ctr + 1]))
         ELSE LET c == Created(op, "dim" \o ToString(i))
              IN  ReifyLoop(c :> ConstantIndexOp(i) @@ g, op, i + 1, ctr,
                            Append(shapes, c))

\* EmptyOp::reifyResultShapes: the values of reifiedReturnShapes[0] and the
\* graph with the constants the builder created.
EmptyOpReifyResultShapes(g, op) == ReifyLoop(g, op, 0, 0, <<>>)

\* The loop of EmptyOp::getMixedSizes.
RECURSIVE MixedSizesLoop(_, _, _, _, _)
MixedSizesLoop(g, op, i, ctr, result) ==
    IF i >= getRank(g[op].type) THEN result
    ELSE IF isDynamicDim(g[op].type, i + 1)
         THEN MixedSizesLoop(g, op, i + 1, ctr + 1,
                             Append(result, ValueRef(g[op].dynamicSizes[ctr + 1])))
         ELSE MixedSizesLoop(g, op, i + 1, ctr,
                             Append(result, IndexAttr(g[op].type.shape[i + 1])))

\* EmptyOp::getMixedSizes
EmptyOpGetMixedSizes(g, op) == MixedSizesLoop(g, op, 0, 0, <<>>)

\* EmptyOp::getDynamicSize(idx): the operand of the dynamic dimension idx.
EmptyOpGetDynamicSize(g, op, idx) ==
    g[op].dynamicSizes[
        Cardinality({i \in 1..idx : isDynamicDim(g[op].type, i)}) + 1]

\* Specification of the tensor.empty routines: one verified tensor.empty
\* whose dynamic sizes are the block arguments %n, %m or the constant %c5.
\* Largest rank of the empty tensor.
MaxEmptyRank == 2

EmptyExtents == {kDynamic, 1, 4}
EmptySizeValues ==
    ("n" :> BlockArgument(IndexType)) @@ ("m" :> BlockArgument(IndexType))
    @@ ("c5" :> ConstantIndexOp(5))

InitEmpty ==
    /\ \E r \in 0..MaxEmptyRank :
       \E shape \in ShapesOfRank(r, EmptyExtents) :
       \E k \in 0..r :
       \E dynamicSizes \in [1..k -> DOMAIN EmptySizeValues] :
          /\ ops = EmptySizeValues
                   @@ ("e" :> EmptyOp(dynamicSizes,
                                      RankedTensorTypeGet(shape, "f32", 0)))
          /\ EmptyOpVerify(ops, "e")
    /\ inp = <<>>
    /\ ret = NoRet

\* A client reifies the result shape of the tensor.empty.
CallReifyResultShapes ==
    \E e \in OpsOfKind(ops, "empty") :
        LET r == EmptyOpReifyResultShapes(ops, e)
        IN /\ ops' = r.post
           /\ Return("EmptyOp::reifyResultShapes", e,
                     [values |-> r.values, pre |-> ops])
           /\ UNCHANGED inp

\* A client asks for the mixed sizes of the tensor.empty.
CallGetMixedSizes ==
    \E e \in OpsOfKind(ops, "empty") :
        /\ Return("EmptyOp::getMixedSizes", e,
                  [sizes |-> EmptyOpGetMixedSizes(ops, e), pre |-> ops])
        /\ UNCHANGED <<ops, inp>>

NextEmpty == CallReifyResultShapes \/ CallGetMixedSizes

SpecEmpty == InitEmpty /\ [][NextEmpty]_vars

\* ------------------------------------------------------------------------
\* The folders of DimOp, InsertOp, RankOp, PadOp and SplatOp
\* ------------------------------------------------------------------------
\* tensor.generate %dynamicExtents { ... } : type
GenerateOp(dynamicExtents, type) ==
    [op |-> "generate", source |-> NullOp, dynamicExtents |-> dynamicExtents,
     type |-> type]
\* tensor.dim %source, %index
DimOp(source, index) ==
    [op |-> "dim", source |-> source, index |-> index, type |-> IndexType]
\* tensor.rank %source
RankOp(source) == [op |-> "rank", source |-> source, type |-> IndexType]
\* tensor.splat %input : type
SplatOp(input, type) == [op |-> "tensor_splat", source |-> input, type |-> type]
\* tensor.insert %scalar into %dest[%indices...]
InsertOp(scalar, dest, indices, type) ==
    [op |-> "insert", source |-> scalar, dest |-> dest, indices |-> indices,
     type |-> type]

\* The constant attribute the fold driver hands over for the operand v, as
\* a sequence of length one; empty (a null attribute) for a runtime value.
ConstantOperand(g, v) ==
    IF g[v].op = "constant" THEN <<[scalar |-> g[v].value]>>
    ELSE IF g[v].op = "splat" THEN <<[splat |-> g[v].value, type |-> g[v].type]>>
    ELSE <<>>

\* foldTensorCast(op) on an operation whose only tensor operand is source:
\* the operand is set to the cast's operand when a foldable cast defines it.
\* The cast is looked up in the current graph.
foldTensorCast(g, op) ==
    LET castOp == getDefiningOp(g, g[op].source, "cast")
    IN  IF castOp # NullOp /\ canFoldIntoConsumerOp(castOp)
        THEN [folded |-> TRUE,
              post |-> [g EXCEPT ![op].source = g[castOp].source]]
        ELSE [folded |-> FALSE, post |-> g]

\* DimOp::fold reporting no fold after foldTensorCast re-pointed the operand.
DimOpFold_nocast(g, dimOp, oob) ==
    LET index == ConstantOperand(g, g[dimOp].index)
        source == g[dimOp].source
        tensorType == g[source].type
    IN
    IF index = <<>> THEN [result |-> NoFold, post |-> g] ELSE
    IF tensorType.kind # "ranked" THEN [result |-> NoFold, post |-> g] ELSE
    LET i == index[1].scalar IN
    IF i \notin 0..(getRank(tensorType) - 1) THEN [result |-> oob, post |-> g] ELSE
    IF ~isDynamicDim(tensorType, i + 1)
    THEN [result |-> FoldToAttr(tensorType.shape[i + 1]), post |-> g] ELSE
    IF g[source].op = "generate"
    THEN [result |-> FoldToValue(
                        g[source].dynamicExtents[
                            Cardinality({j \in 1..i : isDynamic(tensorType.shape[j])}) + 1]),
          post |-> g] ELSE
    IF /\ g[source].op = "extract_slice"
       /\ getRank(g[source].type) = getRank(g[g[source].source].type)
       /\ ~isConstant(g[source].sizes[i + 1])
    THEN [result |-> FoldToValue(g[source].sizes[i + 1].id), post |-> g] ELSE
    LET cast == foldTensorCast(g, dimOp) IN
    [result |-> NoFold, post |-> cast.post]
\* DimOp::fold taking the first operand of every tensor.generate.
DimOpFold_firstextent(g, dimOp, oob) ==
    LET index == ConstantOperand(g, g[dimOp].index)
        source == g[dimOp].source
        tensorType == g[source].type
    IN
    IF index = <<>> THEN [result |-> NoFold, post |-> g] ELSE
    IF tensorType.kind # "ranked" THEN [result |-> NoFold, post |-> g] ELSE
    LET i == index[1].scalar IN
    IF i \notin 0..(getRank(tensorType) - 1) THEN [result |-> oob, post |-> g] ELSE
    IF ~isDynamicDim(tensorType, i + 1)
    THEN [result |-> FoldToAttr(tensorType.shape[i + 1]), post |-> g] ELSE
    IF g[source].op = "generate"
    THEN [result |-> FoldToValue(g[source].dynamicExtents[1]), post |-> g] ELSE
    IF /\ g[source].op = "extract_slice"
       /\ getRank(g[source].type) = getRank(g[g[source].source].type)
       /\ ~isConstant(g[source].sizes[i + 1])
    THEN [result |-> FoldToValue(g[source].sizes[i + 1].id), post |-> g] ELSE
    LET cast == foldTensorCast(g, dimOp) IN
    IF cast.folded THEN [result |-> FoldToValue(dimOp), post |-> cast.post]
    ELSE [result |-> NoFold, post |-> g]
\* DimOp::fold: what it returns and the graph after the call.  The verifier
\* keeps a constant index below the rank; with a negative index
\* isDynamicDim reads the shape outside its storage, and what the fold
\* then does is the outcome oob.
DimOpFold(g, dimOp, oob) ==
    LET index == ConstantOperand(g, g[dimOp].index)
        source == g[dimOp].source
        tensorType == g[source].type
    IN
    \* all forms of folding require a known index
    IF index = <<>> THEN [result |-> NoFold, post |-> g] ELSE
    \* folding for unranked types is not supported
    IF tensorType.kind # "ranked" THEN [result |-> NoFold, post |-> g] ELSE
    LET i == index[1].scalar IN
    IF i \notin 0..(getRank(tensorType) - 1) THEN [result |-> oob, post |-> g] ELSE
    \* the extent along the index is known
    IF ~isDynamicDim(tensorType, i + 1)
    THEN [result |-> FoldToAttr(tensorType.shape[i + 1]), post |-> g] ELSE
    \* dim of tensor.generate: the operand of that dynamic extent
    IF g[source].op = "generate"
    THEN [result |-> FoldToValue(
                        g[source].dynamicExtents[
                            Cardinality({j \in 1..i : isDynamic(tensorType.shape[j])}) + 1]),
          post |-> g] ELSE
    \* dim of a non-rank-reduced extract_slice with a dynamic size there
    IF /\ g[source].op = "extract_slice"
       /\ getRank(g[source].type) = getRank(g[g[source].source].type)
       /\ ~isConstant(g[source].sizes[i + 1])
    THEN [result |-> FoldToValue(g[source].sizes[i + 1].id), post |-> g] ELSE
    \* dim(cast) -> dim
    LET cast == foldTensorCast(g, dimOp) IN
    IF cast.folded THEN [result |-> FoldToValue(dimOp), post |-> cast.post]
    ELSE [result |-> NoFold, post |-> g]

\* InsertOp::fold: a constant scalar inserted into a splat constant of the
\* same value gives the splat.
InsertOpFold(g, op) ==
    LET scalar == ConstantOperand(g, g[op].source)
        dest == ConstantOperand(g, g[op].dest)
    IN  IF /\ scalar # <<>>
           /\ dest # <<>>
           /\ g[g[op].dest].op = "splat"
           /\ scalar[1].scalar = dest[1].splat
        THEN FoldToAttr(dest[1])
        ELSE NoFold

\* RankOp::fold: the rank of a ranked operand.
RankOpFold(g, op) ==
    LET type == g[g[op].source].type
    IN  IF type.kind = "ranked" THEN FoldToAttr(getRank(type)) ELSE NoFold

\* PadOp::fold: a pad without nofold whose static result type is its source
\* type folds to its source.
PadOpFold(g, op) ==
    IF /\ hasStaticShape(g[op].type)
       /\ g[op].type = g[g[op].source].type
       /\ ~g[op].nofold
    THEN FoldToValue(g[op].source)
    ELSE NoFold

\* SplatOp::fold: the splat of a constant integer or float.
SplatOpFold(g, op) ==
    LET constOperand == ConstantOperand(g, g[op].source)
    IN  IF constOperand = <<>> \/ g[g[op].source].op # "constant" THEN NoFold
        ELSE FoldToAttr([splat |-> constOperand[1].scalar, type |-> g[op].type])

\* Specification of the folders: the fold driver runs the folder of an
\* operation of the graph.  The graph is one of the extract graphs, one of
\* the slice graphs, or a tensor %x with a cast %c of it, a generate %gen
\* and two slices %sl, %slr of its type, and one more operation %o: a dim, a
\* rank, a pad, a splat or an insert.
\* Largest rank of %x.
MaxDimRank == 2
\* Largest rank of the slice graphs the folders are run on.
MaxFolderSliceRank == 1

FolderTypes == TensorTypes(MaxDimRank, {kDynamic, 4}, {"f32"}, {0})

FolderValues ==
    ("n" :> BlockArgument(IndexType)) @@ ("m" :> BlockArgument(IndexType))
    @@ ("c0" :> ConstantIndexOp(0)) @@ ("c1" :> ConstantIndexOp(1))
    @@ ("cm" :> ConstantIndexOp(-1))
    @@ ("k7" :> ConstantOp(7, F32)) @@ ("k8" :> ConstantOp(8, F32))
    @@ ("v" :> BlockArgument(F32))

\* The operations over a ranked %x.
RankedProducers(X) ==
    LET r == getRank(X)
        dyn == {i \in 1..r : isDynamic(X.shape[i])}
        nth(i) == Cardinality({j \in 1..i : j \in dyn})
        zeros == [i \in 1..r |-> IndexAttr(0)]
        ones == [i \in 1..r |-> IndexAttr(1)]
        sizes == [i \in 1..r |-> IF i \notin dyn THEN IndexAttr(4)
                                  ELSE IF nth(i) = 1 THEN ValueRef("n")
                                  ELSE ValueRef("m")]
        reduced == [i \in 1..r |-> IF i = r THEN IndexAttr(1) ELSE ValueRef("m")]
    IN  ("gen" :> GenerateOp([k \in 1..Cardinality(dyn) |->
                                 IF k = 1 THEN "n" ELSE "m"], X))
        @@ ("sl" :> ExtractSliceOp("x", zeros, sizes, ones, X))
        @@ (IF r = 0 THEN <<>>
            ELSE "slr" :> ExtractSliceOp("x", zeros, reduced, ones,
                             RankedTensorTypeGet([i \in 1..(r - 1) |-> kDynamic],
                                                 X.elt, 0)))
        @@ ("sp" :> SplatConstantOp(7, RankedTensorTypeGet([i \in 1..r |-> 4],
                                                           X.elt, 0)))

\* The operations %o may be, over the graph g.
FolderSubjects(g) ==
    LET tensors == {v \in DOMAIN g : g[v].type.kind \in {"ranked", "unranked"}}
        ranked == {v \in tensors : g[v].type.kind = "ranked"}
    IN  {DimOp(s, i) : s \in tensors, i \in {"c0", "c1", "n", "cm"}}
        \cup {RankOp(s) : s \in tensors}
        \cup {PadOp(s, [i \in 1..getRank(g[s].type) |-> lh[1]],
                    [i \in 1..getRank(g[s].type) |-> lh[2]], nofold, "k7",
                    PadOpInferResultType(
                        g[s].type,
                        [i \in 1..getRank(g[s].type) |-> lh[1].n],
                        [i \in 1..getRank(g[s].type) |->
                            IF isConstant(lh[2]) THEN lh[2].n ELSE kDynamic],
                        IF isConstant(lh[2]) THEN g[s].type.shape
                        ELSE [i \in 1..getRank(g[s].type) |-> 4])) :
                s \in ranked \cap {"x", "c"},
                lh \in {<<IndexAttr(0), IndexAttr(0)>>,
                        <<IndexAttr(0), ValueRef("n")>>,
                        <<IndexAttr(1), IndexAttr(-1)>>},
                nofold \in BOOLEAN}
        \cup {SplatOp(i, RankedTensorTypeGet(<<4>>, "f32", 0)) : i \in {"k7", "v"}}
        \cup {InsertOp(s, d, [i \in 1..getRank(g[d].type) |-> ValueRef("n")],
                       g[d].type) :
                s \in {"k7", "k8", "v"}, d \in ranked \cap {"sp", "x"}}

\* DimOp::verify: a constant index of a dim of a ranked tensor is below the
\* rank.
DimOpVerify(g, op) ==
    LET index == ConstantOperand(g, g[op].index)
        type == g[g[op].source].type
    IN  IF index = <<>> THEN TRUE
        ELSE IF type.kind = "ranked" /\ index[1].scalar >= getRank(type) THEN FALSE
        ELSE TRUE

InitFolders ==
    /\ \E X \in FolderTypes, C \in FolderTypes :
          /\ areCastCompatible(X, C)
          /\ LET g == FolderValues
                      @@ ("x" :> BlockArgument(X)) @@ ("c" :> CastOp("x", C))
                      @@ (IF X.kind = "ranked" THEN RankedProducers(X) ELSE <<>>)
             IN  \E o \in FolderSubjects(g) :
                    /\ o.op = "dim" => DimOpVerify(("o" :> o) @@ g, "o")
                    /\ ops = ("o" :> o) @@ g
    /\ inp = <<>>
    /\ ret = NoRet

InitFold == InitFolders \/ InitExtract \/ InitSliceOfRank(MaxFolderSliceRank)

\* ExtractOp::fold is run on the extract of an extract graph.
FoldExtractOp ==
    /\ "e" \in OpsOfKind(ops, "extract")
    /\ FoldExtract

\* What DimOp::fold can do after it read the shape at a negative index:
\* stop, fold to the extent it found there, or go on and find no fold.
DimOutOfBounds == {FoldTrap, FoldToAttr(7), NoFold}

\* DimOp::fold is run on a dim of the graph.
FoldDim ==
    \E op \in OpsOfKind(ops, "dim") :
      \E oob \in DimOutOfBounds :
        LET r == DimOpFold(ops, op, oob)
        IN /\ ops' = r.post
           /\ Return("DimOp::fold", op, [result |-> r.result, pre |-> ops])
           /\ UNCHANGED inp

\* InsertOp::fold is run on an insert of the graph.
FoldInsert ==
    \E op \in OpsOfKind(ops, "insert") :
        /\ Return("InsertOp::fold", op,
                  [result |-> InsertOpFold(ops, op), pre |-> ops])
        /\ UNCHANGED <<ops, inp>>

\* RankOp::fold is run on a rank of the graph.
FoldRank ==
    \E op \in OpsOfKind(ops, "rank") :
        /\ Return("RankOp::fold", op,
                  [result |-> RankOpFold(ops, op), pre |-> ops])
        /\ UNCHANGED <<ops, inp>>

\* PadOp::fold is run on a pad of the graph.
FoldPad ==
    \E op \in OpsOfKind(ops, "pad") :
        /\ Return("PadOp::fold", op,
                  [result |-> PadOpFold(ops, op), pre |-> ops])
        /\ UNCHANGED <<ops, inp>>

\* SplatOp::fold is run on a tensor.splat of the graph.
FoldSplat ==
    \E op \in OpsOfKind(ops, "tensor_splat") :
        /\ Return("SplatOp::fold", op,
                  [result |-> SplatOpFold(ops, op), pre |-> ops])
        /\ UNCHANGED <<ops, inp>>

NextFold ==
    \/ FoldDim
    \/ FoldExtractOp
    \/ FoldInsert
    \/ FoldRank
    \/ FoldExtractSlice
    \/ FoldInsertSlice
    \/ FoldPad
    \/ FoldSplat

SpecFold == InitFold /\ [][NextFold]_vars

\* The folder of DimOp alone, on the graphs of InitFolders.
NextDim == FoldDim

SpecDim == InitFolders /\ [][NextDim]_vars

\* ------------------------------------------------------------------------
\* Canonicalization patterns of EmptyOp
\* ------------------------------------------------------------------------
\* A matchAndRewrite returns [status, post, created]: the LogicalResult,
\* the graph it leaves and the operation of the root's kind it created
\* (NullOp when it created none). The status "trap" is an execution that a
\* checked build aborts.
Trap == "trap"

\* The values of the runtime entries of a mixed list, in order
\* (dispatchIndexOpFoldResults fills them into dynamicVec).
DynamicEntries(mixed) ==
    LET dyn == SelectSeq(mixed, LAMBDA ofr : ~isConstant(ofr))
    IN  [i \in 1..Len(dyn) |-> dyn[i].id]

\* EmptyOp::build(builder, result, ArrayRef<OpFoldResult> sizes, elementType):
\* the encoding argument is defaulted to the null attribute.
EmptyOpBuild(sizes, elementType) ==
    EmptyOp(DynamicEntries(sizes),
            RankedTensorTypeGet(StaticEntries(sizes), elementType, 0))

\* What op.getDynamicSizes()[ctr] reads: the operand, or, past the end of
\* the operand list, whatever the build yields there: oob is a value of the
\* graph or Trap.
OperandAt(operands, ctr, oob) ==
    IF ctr + 1 <= Len(operands) THEN operands[ctr + 1] ELSE oob

\* The loop of ReplaceEmptyTensorStaticShapeDims over i in [0, rank).
RECURSIVE ReplaceEmptyLoop(_, _, _, _, _, _, _, _)
ReplaceEmptyLoop(g, op, oob, i, ctr, staticShape, dynamicSizes, changedType) ==
    IF i >= getRank(g[op].type)
    THEN [trapped |-> FALSE, staticShape |-> staticShape,
          dynamicSizes |-> dynamicSizes, changedType |-> changedType]
    ELSE IF ~isDynamicDim(g[op].type, i + 1)
    THEN ReplaceEmptyLoop(g, op, oob, i + 1, ctr, staticShape, dynamicSizes,
                          changedType)
    ELSE LET dynamicSize == OperandAt(g[op].dynamicSizes, ctr, oob)
         IN  IF dynamicSize = Trap
             THEN [trapped |-> TRUE, staticShape |-> staticShape,
                   dynamicSizes |-> dynamicSizes, changedType |-> changedType]
             ELSE LET cst == getConstantIntValue(g, ValueRef(dynamicSize))
                  IN  IF cst # <<>>
                      THEN ReplaceEmptyLoop(g, op, oob, i + 1, ctr + 1,
                               [staticShape EXCEPT ![i + 1] = cst[1]],
                               dynamicSizes, TRUE)
                      ELSE ReplaceEmptyLoop(g, op, oob, i + 1, ctr + 1,
                               staticShape, Append(dynamicSizes, dynamicSize),
                               changedType)

\* ReplaceEmptyTensorStaticShapeDims::matchAndRewrite
ReplaceEmptyTensorStaticShapeDims(g, op, oob) ==
    LET l == ReplaceEmptyLoop(g, op, oob, 0, 0, g[op].type.shape, <<>>, FALSE)
        newOp == Created(op, "empty")
        tensorType == RankedTensorTypeGet(l.staticShape, g[op].type.elt,
                                          g[op].type.enc)
    IN  IF l.trapped THEN [status |-> Trap, post |-> g, created |-> NullOp]
        ELSE IF ~l.changedType
        THEN [status |-> "failure", post |-> g, created |-> NullOp]
        ELSE [status |-> "success",
              post |-> (newOp :> EmptyOp(l.dynamicSizes, tensorType))
                       @@ [g EXCEPT ![op] = CastOp(newOp, g[op].type)],
              created |-> newOp]

\* tensor.expand_shape / tensor.collapse_shape %src reassociation : type;
\* reassociation holds the groups of dimensions.
ExpandShapeOp(src, reassociation, type) ==
    [op |-> "expand_shape", source |-> src, reassociation |-> reassociation,
     type |-> type]
CollapseShapeOp(src, reassociation, type) ==
    [op |-> "collapse_shape", source |-> src, reassociation |-> reassociation,
     type |-> type]

\* The extent of dimension i (0-based) of the result of a reshape of a
\* tensor.empty, as reifyResultShapes materializes it.
ReifiedDimOp(source, i) ==
    [op |-> "reified_dim", source |-> source, index |-> i, type |-> IndexType]

\* reifyResultShapes of expand_shape and collapse_shape: one sequence of
\* rank values for the one result, a constant for a static dimension and a
\* computation on the source for a dynamic one; it reports success.
RECURSIVE ReshapeReifyLoop(_, _, _, _)
ReshapeReifyLoop(g, op, i, shapes) ==
    IF i >= getRank(g[op].type) THEN [values |-> shapes, post |-> g]
    ELSE LET c == Created(op, "dim" \o ToString(i))
             def == IF isDynamicDim(g[op].type, i + 1)
                    THEN ReifiedDimOp(g[op].source, i)
                    ELSE ConstantIndexOp(getDimSize(g[op].type, i + 1))
         IN  ReshapeReifyLoop(c :> def @@ g, op, i + 1, Append(shapes, c))

ReshapeReifyResultShapes(g, op) ==
    LET l == ReshapeReifyLoop(g, op, 0, <<>>)
    IN  [failed |-> FALSE, resultShapes |-> <<l.values>>, post |-> l.post]

\* getAsOpFoldResult(ValueRange): the attribute of a value defined by a
\* constant, the value otherwise.
getAsOpFoldResult(g, values) ==
    [i \in 1..Len(values) |->
        IF g[values[i]].op = "constant" THEN IndexAttr(g[values[i]].value)
        ELSE ValueRef(values[i])]

\* FoldEmptyTensorWithReshapeOp::matchAndRewrite: the reification runs on
\* the rewriter before its result is checked.
FoldEmptyTensorWithReshapeOp(g, reshapeOp) ==
    IF getDefiningOp(g, g[reshapeOp].source, "empty") = NullOp
    THEN [status |-> "failure", post |-> g, created |-> NullOp]
    ELSE LET reified == ReshapeReifyResultShapes(g, reshapeOp)
             h == reified.post
             emptyTensor == Created(reshapeOp, "empty")
             newOp == EmptyOpBuild(getAsOpFoldResult(h, reified.resultShapes[1]),
                                   h[reshapeOp].type.elt)
         IN  IF reified.failed \/ Len(reified.resultShapes) # 1
             THEN [status |-> "failure", post |-> h, created |-> NullOp]
             ELSE IF newOp.type # h[reshapeOp].type
             THEN [status |-> "success",
                   post |-> (emptyTensor :> newOp)
                            @@ [h EXCEPT ![reshapeOp] =
                                   CastOp(emptyTensor, h[reshapeOp].type)],
                   created |-> emptyTensor]
             ELSE [status |-> "success",
                   post |-> [h EXCEPT ![reshapeOp] = newOp],
                   created |-> reshapeOp]

\* The operand list of the tensor.empty op as the reads of getMixedSizes see
\* it: a read past its end yields oob.
WithOutOfBounds(g, op, oob) ==
    [g EXCEPT ![op].dynamicSizes =
        [i \in 1..getNumDynamicDims(g[op].type) |->
            OperandAt(g[op].dynamicSizes, i - 1, oob)]]

\* FoldEmptyTensorWithCastOp::matchAndRewrite
FoldEmptyTensorWithCastOp(g, castOp, oob) ==
    IF ~canFoldIntoProducerOp(castOp)
    THEN [status |-> "failure", post |-> g, created |-> NullOp]
    ELSE IF getDefiningOp(g, g[castOp].source, "empty") = NullOp
    THEN [status |-> "failure", post |-> g, created |-> NullOp]
    ELSE LET producer == g[castOp].source
             resultType == g[castOp].type
             currMixedSizes ==
                 EmptyOpGetMixedSizes(WithOutOfBounds(g, producer, oob), producer)
             newMixedSizes ==
                 [i \in 1..Len(currMixedSizes) |->
                     IF isConstant(currMixedSizes[i]) THEN currMixedSizes[i]
                     ELSE IF ~isDynamic(resultType.shape[i])
                     THEN IndexAttr(resultType.shape[i])
                     ELSE currMixedSizes[i]]
         IN  IF /\ oob = Trap
                /\ getNumDynamicDims(g[producer].type) > Len(g[producer].dynamicSizes)
             THEN [status |-> Trap, post |-> g, created |-> NullOp]
             ELSE IF \E i \in 1..Len(currMixedSizes) :
                   /\ isConstant(currMixedSizes[i])
                   /\ \/ isDynamic(resultType.shape[i])
                      \/ resultType.shape[i] # currMixedSizes[i].n
             THEN [status |-> "failure", post |-> g, created |-> NullOp]
             ELSE [status |-> "success",
                   post |-> [g EXCEPT ![castOp] =
                                EmptyOpBuild(newMixedSizes, resultType.elt)],
                   created |-> castOp]

\* ------------------------------------------------------------------------
\* Canonicalization patterns of GenerateOp and InsertSliceOp
\* ------------------------------------------------------------------------
\* The loop of StaticTensorGenerate over the dimensions of the result type;
\* it is the position of operandsIt in the dynamic extents.
RECURSIVE StaticGenerateLoop(_, _, _, _, _, _, _)
StaticGenerateLoop(g, op, oob, i, it, newShape, newOperands) ==
    IF i >= getRank(g[op].type)
    THEN [trapped |-> FALSE, newShape |-> newShape, newOperands |-> newOperands]
    ELSE IF ~isDynamicDim(g[op].type, i + 1)
    THEN StaticGenerateLoop(g, op, oob, i + 1, it,
                            Append(newShape, getDimSize(g[op].type, i + 1)),
                            newOperands)
    ELSE LET operand == OperandAt(g[op].dynamicExtents, it, oob)
         IN  IF operand = Trap
             THEN [trapped |-> TRUE, newShape |-> newShape,
                   newOperands |-> newOperands]
             ELSE LET index == getConstantIntValue(g, ValueRef(operand))
                  IN  IF index = <<>>
                      THEN StaticGenerateLoop(g, op, oob, i + 1, it + 1,
                               Append(newShape, kDynamic),
                               Append(newOperands, operand))
                      ELSE StaticGenerateLoop(g, op, oob, i + 1, it + 1,
                               Append(newShape, index[1]), newOperands)

\* StaticTensorGenerate::matchAndRewrite; the body region moves to the new
\* operation.
StaticTensorGenerate(g, tensorFromElements, oob) ==
    LET resultType == g[tensorFromElements].type
        l == StaticGenerateLoop(g, tensorFromElements, oob, 0, 0, <<>>, <<>>)
        newOp == Created(tensorFromElements, "generate")
    IN  IF hasStaticShape(resultType)
        THEN [status |-> "failure", post |-> g, created |-> NullOp]
        ELSE IF l.trapped THEN [status |-> Trap, post |-> g, created |-> NullOp]
        ELSE IF Len(l.newOperands) = Len(g[tensorFromElements].dynamicExtents)
        THEN [status |-> "failure", post |-> g, created |-> NullOp]
        ELSE [status |-> "success",
              post |-> (newOp :> GenerateOp(l.newOperands,
                            RankedTensorTypeGet(l.newShape, resultType.elt, 0)))
                       @@ [g EXCEPT ![tensorFromElements] =
                              CastOp(newOp, resultType)],
              created |-> newOp]

\* computeRankReductionMask(originalShape, reducedShape) finds a mask: the
\* reduced shape is the original one without some of its unit dimensions,
\* matched greedily from the front.
RECURSIVE computeRankReductionMask(_, _, _, _)
computeRankReductionMask(originalShape, reducedShape, i, j) ==
    IF i > Len(originalShape) THEN j > Len(reducedShape)
    ELSE IF j <= Len(reducedShape) /\ originalShape[i] = reducedShape[j]
    THEN computeRankReductionMask(originalShape, reducedShape, i + 1, j + 1)
    ELSE IF originalShape[i] = 1
    THEN computeRankReductionMask(originalShape, reducedShape, i + 1, j)
    ELSE FALSE

\* SliceVerificationResult isRankReducedType(originalType, candidateReducedType)
isRankReducedType(originalType, candidateReducedType) ==
    IF originalType = candidateReducedType THEN "Success"
    ELSE IF getRank(candidateReducedType) > getRank(originalType)
    THEN "RankTooLarge"
    ELSE IF ~computeRankReductionMask(originalType.shape,
                                      candidateReducedType.shape, 1, 1)
    THEN "SizeMismatch"
    ELSE IF originalType.elt # candidateReducedType.elt THEN "ElemTypeMismatch"
    ELSE "Success"

\* verifyInsertSliceOp(srcType, dstType, staticOffsets, staticSizes,
\* staticStrides)
verifyInsertSliceOp(srcType, dstType, staticOffsets, staticSizes, staticStrides) ==
    isRankReducedType(inferResultType(dstType, staticOffsets, staticSizes,
                                      staticStrides), srcType)

\* matchPattern(operand, matchConstantIndex())
matchConstantIndex(g, operand) ==
    g[operand].op = "constant" /\ g[operand].type = IndexType

\* Operation::getOperands of an insert_slice: the source, the destination
\* and the runtime offsets, sizes and strides.
InsertSliceOperands(g, op) ==
    LET dyn == DynamicEntries(g[op].offsets \o g[op].sizes \o g[op].strides)
    IN  {g[op].source, g[op].dest} \cup {dyn[i] : i \in 1..Len(dyn)}

\* The lambda getSourceOfCastOp of InsertSliceOpCastFolder: the source of
\* the cast defining v, NullOp for llvm::None.
getSourceOfCastOp(g, v) ==
    LET castOp == getDefiningOp(g, v, "cast")
    IN  IF castOp = NullOp \/ ~canFoldIntoConsumerOp(castOp) THEN NullOp
        ELSE g[castOp].source

\* Mutant: the new insert_slice is created before the types are verified.
InsertSliceOpCastFolder_early(g, insertSliceOp) ==
    LET o == g[insertSliceOp]
        sourceCastSource == getSourceOfCastOp(g, o.source)
        destCastSource == getSourceOfCastOp(g, o.dest)
        src == IF sourceCastSource # NullOp THEN sourceCastSource ELSE o.source
        dst == IF destCastSource # NullOp THEN destCastSource ELSE o.dest
        replacement == InsertSliceOp(src, dst, o.offsets, o.sizes, o.strides,
                                     g[dst].type)
        inner == Created(insertSliceOp, "insert_slice")
        rewritten ==
            IF g[dst].type # g[o.dest].type
            THEN (inner :> replacement)
                 @@ [g EXCEPT ![insertSliceOp] = CastOp(inner, g[o.dest].type)]
            ELSE [g EXCEPT ![insertSliceOp] = replacement]
    IN  IF \E operand \in InsertSliceOperands(g, insertSliceOp) :
              matchConstantIndex(g, operand)
        THEN [status |-> "failure", post |-> g, created |-> NullOp]
        ELSE IF sourceCastSource = NullOp /\ destCastSource = NullOp
        THEN [status |-> "failure", post |-> g, created |-> NullOp]
        ELSE IF verifyInsertSliceOp(g[src].type, g[dst].type,
                                    StaticEntries(o.offsets),
                                    StaticEntries(o.sizes),
                                    StaticEntries(o.strides)) # "Success"
        THEN [status |-> "failure", post |-> rewritten, created |-> NullOp]
        ELSE [status |-> "success", post |-> rewritten,
              created |-> IF g[dst].type # g[o.dest].type THEN inner
                          ELSE insertSliceOp]

\* InsertSliceOpCastFolder<InsertSliceOp>::matchAndRewrite
InsertSliceOpCastFolder(g, insertSliceOp) ==
    LET o == g[insertSliceOp]
        sourceCastSource == getSourceOfCastOp(g, o.source)
        destCastSource == getSourceOfCastOp(g, o.dest)
        src == IF sourceCastSource # NullOp THEN sourceCastSource ELSE o.source
        dst == IF destCastSource # NullOp THEN destCastSource ELSE o.dest
        replacement == InsertSliceOp(src, dst, o.offsets, o.sizes, o.strides,
                                     g[dst].type)
        inner == Created(insertSliceOp, "insert_slice")
    IN  IF \E operand \in InsertSliceOperands(g, insertSliceOp) :
              matchConstantIndex(g, operand)
        THEN [status |-> "failure", post |-> g, created |-> NullOp]
        ELSE IF sourceCastSource = NullOp /\ destCastSource = NullOp
        THEN [status |-> "failure", post |-> g, created |-> NullOp]
        ELSE IF verifyInsertSliceOp(g[src].type, g[dst].type,
                                    StaticEntries(o.offsets),
                                    StaticEntries(o.sizes),
                                    StaticEntries(o.strides)) # "Success"
        THEN [status |-> "failure", post |-> g, created |-> NullOp]
        ELSE IF g[dst].type # g[o.dest].type
        THEN [status |-> "success",
              post |-> (inner :> replacement)
                       @@ [g EXCEPT ![insertSliceOp] =
                              CastOp(inner, g[o.dest].type)],
              created |-> inner]
        ELSE [status |-> "success",
              post |-> [g EXCEPT ![insertSliceOp] = replacement],
              created |-> insertSliceOp]

\* InsertSliceOpSourceCastInserter<InsertSliceOp>::matchAndRewrite
InsertSliceOpSourceCastInserter(g, insertSliceOp) ==
    LET o == g[insertSliceOp]
        srcType == g[o.source].type
        newSrcShape ==
            [i \in 1..getRank(srcType) |->
                LET constInt == getConstantIntValue(g, o.sizes[i])
                IN  IF constInt # <<>> THEN constInt[1] ELSE srcType.shape[i]]
        newSrcType == RankedTensorTypeGet(newSrcShape, srcType.elt, 0)
        cast == Created(insertSliceOp, "cast")
    IN  IF getRank(srcType) # getRank(g[o.dest].type)
        THEN [status |-> "failure", post |-> g, created |-> NullOp]
        ELSE IF \/ srcType = newSrcType
                \/ ~preservesStaticInformation(srcType, newSrcType)
                \/ ~areCastCompatible(srcType, newSrcType)
        THEN [status |-> "failure", post |-> g, created |-> NullOp]
        ELSE [status |-> "success",
              post |-> (cast :> CastOp(o.source, newSrcType))
                       @@ [g EXCEPT ![insertSliceOp] =
                              InsertSliceOp(cast, o.dest, o.offsets, o.sizes,
                                            o.strides, o.type)],
              created |-> insertSliceOp]

\* ------------------------------------------------------------------------
\* Reassociative reshape ops: the collapsed type and the verifiers
\* ------------------------------------------------------------------------
\* A reassociation is the sequence of its groups, every group the sequence
\* of the (0-based) dimensions of the expanded type it merges;
\* AffineMap::getNumResults of a group is its length.
\* The product of shape[currentDim + d] for d in [0, dim).
RECURSIVE BandProduct(_, _, _, _)
BandProduct(shape, currentDim, dim, d) ==
    IF d >= dim THEN 1
    ELSE shape[currentDim + d + 1] * BandProduct(shape, currentDim, dim, d + 1)

\* The loop of computeTensorReshapeCollapsedType over the groups.
RECURSIVE CollapsedShapeLoop(_, _, _, _, _)
CollapsedShapeLoop(shape, reassociation, m, currentDim, newShape) ==
    IF m > Len(reassociation) THEN newShape
    ELSE LET dim == Len(reassociation[m])
             band == {shape[currentDim + d] : d \in 1..dim}
             size == IF kDynamic \in band THEN kDynamic
                     ELSE BandProduct(shape, currentDim, dim, 0)
         IN  CollapsedShapeLoop(shape, reassociation, m + 1, currentDim + dim,
                                Append(newShape, size))

\* Mutant: the band of a group always starts at dimension 0.
computeTensorReshapeCollapsedType_nobase(type, reassociation) ==
    RankedTensorTypeGet(
        [m \in 1..Len(reassociation) |->
            LET dim == Len(reassociation[m])
            IN  IF kDynamic \in {type.shape[d] : d \in 1..dim} THEN kDynamic
                ELSE BandProduct(type.shape, 0, dim, 0)],
        type.elt, 0)

\* computeTensorReshapeCollapsedType(type, reassociation)
computeTensorReshapeCollapsedType(type, reassociation) ==
    RankedTensorTypeGet(
        CollapsedShapeLoop(type.shape, reassociation, 1, 0, <<>>),
        type.elt, 0)

\* isSameTypesWithoutEncoding(tp1, tp2)
isSameTypesWithoutEncoding(tp1, tp2) ==
    IF hasRank(tp1)
    THEN IF hasRank(tp2) THEN tp1.shape = tp2.shape /\ tp1.elt = tp2.elt
         ELSE FALSE
    ELSE tp1 = tp2

\* isReassociationValid: the groups are contiguous and in order; together
\* with the rank check of verifyReshapeLikeTypes they cover the expanded
\* rank.
isReassociationValid(reassociation, expandedRank) ==
    LET flat == Flatten(reassociation)
    IN  /\ Len(flat) = expandedRank
        /\ \A i \in 1..Len(flat) : flat[i] = i - 1
        /\ \A m \in 1..Len(reassociation) : Len(reassociation[m]) >= 1

\* verifyReshapeLikeTypes(op, expandedType, collapsedType, isExpansion): the
\* ranks and the reassociation fit together.
verifyReshapeLikeTypes(reassociation, expandedType, collapsedType) ==
    /\ getRank(expandedType) >= getRank(collapsedType)
    /\ Len(reassociation) = getRank(collapsedType)
    /\ isReassociationValid(reassociation, getRank(expandedType))

\* verifyTensorReshapeOp(op, expandedType, collapsedType): TRUE is success().
verifyTensorReshapeOp(reassociation, expandedType, collapsedType) ==
    IF ~verifyReshapeLikeTypes(reassociation, expandedType, collapsedType)
    THEN FALSE
    ELSE LET expectedType ==
                 computeTensorReshapeCollapsedType(expandedType, reassociation)
         IN  IF ~isSameTypesWithoutEncoding(collapsedType, expectedType)
             THEN FALSE
             ELSE TRUE

\* ExpandShapeOp::verify
ExpandShapeOpVerify(g, op) ==
    verifyTensorReshapeOp(g[op].reassociation, g[op].type,
                          g[g[op].source].type)

\* CollapseShapeOp::verify
CollapseShapeOpVerify(g, op) ==
    verifyTensorReshapeOp(g[op].reassociation, g[g[op].source].type,
                          g[op].type)

\* ------------------------------------------------------------------------
\* Specification of the canonicalization patterns: the rewrite driver
\* applies a pattern to an operation of a graph holding one tensor.empty
\* with a consumer, one tensor.generate, one tensor.insert_slice between
\* casts, or a chain of pads.
\* ------------------------------------------------------------------------
\* Largest rank of the empty and generated tensors.
MaxPatternRank == 2
\* Largest rank of the insert_slice graphs.
MaxPatternSliceRank == 1
PatternExtents == {kDynamic, 4}
\* %n is a runtime size, %c5 the constant 5 and %ck the constant whose
\* value is ShapedType::kDynamic.
PatternSizeValues ==
    ("n" :> BlockArgument(IndexType)) @@ ("c5" :> ConstantIndexOp(5))
    @@ ("ck" :> ConstantIndexOp(kDynamic))

\* The reassociation of rank r whose groups start at dimension 0 and at
\* the dimensions in cuts.
ReassociationOf(r, cuts) ==
    LET starts == IF r = 0 THEN {} ELSE {0} \cup cuts
        StartOf(m) == IF m > Cardinality(starts) THEN r
                      ELSE CHOOSE s \in starts :
                               Cardinality({t \in starts : t < s}) = m - 1
    IN  [m \in 1..Cardinality(starts) |->
            [j \in 1..(StartOf(m + 1) - StartOf(m)) |-> StartOf(m) + j - 1]]

Reassociations(r) == {ReassociationOf(r, cuts) : cuts \in SUBSET (1..(r - 1))}

\* The consumers of the tensor.empty %e of type t: none, a cast %c, a
\* collapse_shape %rs or an expand_shape %rs.
EmptyConsumers(t) ==
    {<<>>}
    \cup {"c" :> CastOp("e", T) :
            T \in {U \in RankedTypes(MaxPatternRank, PatternExtents, {"f32"}, {0}) :
                      areCastCompatible(t, U)}}
    \cup {"rs" :> CollapseShapeOp("e", ra,
                      [computeTensorReshapeCollapsedType(t, ra) EXCEPT !.enc = enc]) :
            ra \in Reassociations(getRank(t)), enc \in Encodings}
    \cup UNION {{"rs" :> ExpandShapeOp("e", ra, T) :
                    ra \in {rb \in Reassociations(getRank(T)) :
                               verifyTensorReshapeOp(rb, T, t)}} :
                T \in RankedTypes(MaxPatternRank, PatternExtents \cup {1},
                                  {"f32"}, {0})}

\* The graphs of one verified tensor.empty %e and its consumer.
EmptyGraphs ==
    UNION {{PatternSizeValues @@ ("e" :> e) @@ consumer :
               consumer \in EmptyConsumers(e.type)} :
           e \in {EmptyOp(dynamicSizes, t) :
                     t \in RankedTypes(MaxPatternRank, PatternExtents, {"f32"}, {0}),
                     dynamicSizes \in UNION {[1..k -> DOMAIN PatternSizeValues] :
                                                k \in 0..MaxPatternRank}}}

\* The graphs of one tensor.generate %gen.
GenerateGraphs ==
    {PatternSizeValues @@ ("gen" :> GenerateOp(dynamicExtents, t)) :
        t \in RankedTypes(MaxPatternRank, PatternExtents, {"f32"}, Encodings),
        dynamicExtents \in UNION {[1..k -> DOMAIN PatternSizeValues] :
                                     k \in 0..MaxPatternRank}}

PatternSizes == {IndexAttr(4), ValueRef("n"), ValueRef("c5")}
InsertSourceExtents == {kDynamic, 4}
InsertDestExtents == {kDynamic, 8}

\* %i = insert_slice %src into %dst[0...] [sizes] [1...], where %src is the
\* argument %s0 or a cast %s of it and %dst the argument %d0 or a cast %d.
InsertGraph(S0, S, D0, D, srcCast, dstCast, sizes) ==
    LET r == Len(sizes)
        src == IF srcCast THEN "s" ELSE "s0"
        dst == IF dstCast THEN "d" ELSE "d0"
    IN  PatternSizeValues
        @@ ("s0" :> BlockArgument(S0)) @@ ("d0" :> BlockArgument(D0))
        @@ (IF srcCast THEN "s" :> CastOp("s0", S) ELSE <<>>)
        @@ (IF dstCast THEN "d" :> CastOp("d0", D) ELSE <<>>)
        @@ ("i" :> InsertSliceOp(src, dst, [k \in 1..r |-> IndexAttr(0)], sizes,
                                 [k \in 1..r |-> IndexAttr(1)],
                                 IF dstCast THEN D ELSE D0))

\* InsertSliceOp::verify: TRUE is success().
InsertSliceOpVerify(g, op) ==
    verifyInsertSliceOp(g[g[op].source].type, g[op].type,
                        StaticEntries(g[op].offsets), StaticEntries(g[op].sizes),
                        StaticEntries(g[op].strides)) = "Success"

InsertGraphs ==
    UNION {{g \in {InsertGraph(S0, S, D0, D, srcCast, dstCast, sizes) :
                      S0 \in RankedTypes(r, InsertSourceExtents, {"f32"}, Encodings),
                      S \in RankedTypes(r, InsertSourceExtents, {"f32"}, {0}),
                      D0 \in RankedTypes(r, InsertDestExtents, {"f32"}, {0}),
                      D \in RankedTypes(r, InsertDestExtents, {"f32"}, {0}),
                      srcCast \in BOOLEAN, dstCast \in BOOLEAN,
                      sizes \in [1..r -> PatternSizes]} :
               /\ getRank(g["s0"].type) = r /\ getRank(g["d0"].type) = r
               /\ \A c \in OpsOfKind(g, "cast") :
                     /\ getRank(g[c].type) = r
                     /\ areCastCompatible(g[g[c].source].type, g[c].type)
               /\ InsertSliceOpVerify(g, "i")} :
           r \in 1..MaxPatternSliceRank}

InitPatterns ==
    \/ /\ ops \in {g \in EmptyGraphs : EmptyOpVerify(g, "e")}
                  \cup {g \in GenerateGraphs :
                           getNumDynamicDims(g["gen"].type)
                               = Len(g["gen"].dynamicExtents)}
                  \cup InsertGraphs
       /\ inp = <<>>
       /\ ret = NoRet
    \/ InitChain

\* What a read past the end of an operand list yields: the trap of a
\* checked build, or a value, be it a runtime size or a constant.
OutOfBounds(g) == {Trap} \cup (DOMAIN g \cap {"n", "c5"})

ApplyReplaceEmptyTensorStaticShapeDims ==
    \E op \in OpsOfKind(ops, "empty"), oob \in OutOfBounds(ops) :
        LET r == ReplaceEmptyTensorStaticShapeDims(ops, op, oob)
        IN /\ ops' = r.post
           /\ Return("ReplaceEmptyTensorStaticShapeDims", op,
                     [status |-> r.status, pre |-> ops, created |-> r.created])
           /\ UNCHANGED inp

ApplyStaticTensorGenerate ==
    \E op \in OpsOfKind(ops, "generate"), oob \in OutOfBounds(ops) :
        LET r == StaticTensorGenerate(ops, op, oob)
        IN /\ ops' = r.post
           /\ Return("StaticTensorGenerate", op,
                     [status |-> r.status, pre |-> ops, created |-> r.created])
           /\ UNCHANGED inp

ApplyFoldEmptyTensorWithReshapeOp ==
    \E op \in OpsOfKind(ops, "expand_shape") \cup OpsOfKind(ops, "collapse_shape") :
        LET r == FoldEmptyTensorWithReshapeOp(ops, op)
        IN /\ ops' = r.post
           /\ Return("FoldEmptyTensorWithReshapeOp", op,
                     [status |-> r.status, pre |-> ops, created |-> r.created])
           /\ UNCHANGED inp

ApplyFoldEmptyTensorWithCastOp ==
    \E op \in OpsOfKind(ops, "cast"), oob \in OutOfBounds(ops) :
        LET r == FoldEmptyTensorWithCastOp(ops, op, oob)
        IN /\ ops' = r.post
           /\ Return("FoldEmptyTensorWithCastOp", op,
                     [status |-> r.status, pre |-> ops, created |-> r.created])
           /\ UNCHANGED inp

ApplyInsertSliceOpCastFolder ==
    \E op \in OpsOfKind(ops, "insert_slice") :
        LET r == InsertSliceOpCastFolder(ops, op)
        IN /\ ops' = r.post
           /\ Return("InsertSliceOpCastFolder", op,
                     [status |-> r.status, pre |-> ops, created |-> r.created])
           /\ UNCHANGED inp

ApplyInsertSliceOpSourceCastInserter ==
    \E op \in OpsOfKind(ops, "insert_slice") :
        LET r == InsertSliceOpSourceCastInserter(ops, op)
        IN /\ ops' = r.post
           /\ Return("InsertSliceOpSourceCastInserter", op,
                     [status |-> r.status, pre |-> ops, created |-> r.created])
           /\ UNCHANGED inp

NextPatterns ==
    \/ ApplyReplaceEmptyTensorStaticShapeDims
    \/ ApplyStaticTensorGenerate
    \/ ApplyFoldEmptyTensorWithReshapeOp
    \/ ApplyFoldEmptyTensorWithCastOp
    \/ ApplyInsertSliceOpCastFolder
    \/ ApplyInsertSliceOpSourceCastInserter
    \/ ApplyFoldOrthogonalPaddings

SpecPatterns == InitPatterns /\ [][NextPatterns]_vars

\* ------------------------------------------------------------------------
\* Specification of the reassociative reshape ops: %rs is an expand_shape
\* or a collapse_shape of the block argument %t, with any declared type
\* for the collapsed side.
\* ------------------------------------------------------------------------
\* Largest rank of the expanded type.
MaxReshapeRank == 2

ReshapeExpandedExtents == {kDynamic, 2, 3}
ReshapeCollapsedExtents == {kDynamic, 2, 4, 6}

InitReshape ==
    /\ \E expandedType \in RankedTypes(MaxReshapeRank, ReshapeExpandedExtents,
                                       {"f32"}, Encodings),
          collapsedType \in RankedTypes(MaxReshapeRank, ReshapeCollapsedExtents,
                                        ElementTypes, Encodings) :
       \E reassociation \in Reassociations(getRank(expandedType)) :
          \/ ops = ("t" :> BlockArgument(collapsedType))
                   @@ ("rs" :> ExpandShapeOp("t", reassociation, expandedType))
          \/ ops = ("t" :> BlockArgument(expandedType))
                   @@ ("rs" :> CollapseShapeOp("t", reassociation, collapsedType))
    /\ inp = <<>>
    /\ ret = NoRet

\* The expanded type of the reshape op: the result of an expand_shape, the
\* source of a collapse_shape.
ExpandedTypeOf(g, op) ==
    IF g[op].op = "expand_shape" THEN g[op].type ELSE g[g[op].source].type

\* The collapsed type is computed from the expanded one.
CallComputeTensorReshapeCollapsedType ==
    \E op \in OpsOfKind(ops, "expand_shape") \cup OpsOfKind(ops, "collapse_shape") :
        /\ isReassociationValid(ops[op].reassociation,
                                getRank(ExpandedTypeOf(ops, op)))
        /\ Return("computeTensorReshapeCollapsedType", op,
                  computeTensorReshapeCollapsedType(ExpandedTypeOf(ops, op),
                                                    ops[op].reassociation))
        /\ UNCHANGED <<ops, inp>>

CallExpandShapeVerify ==
    \E op \in OpsOfKind(ops, "expand_shape") :
        /\ Return("ExpandShapeOp::verify", op, ExpandShapeOpVerify(ops, op))
        /\ UNCHANGED <<ops, inp>>

CallCollapseShapeVerify ==
    \E op \in OpsOfKind(ops, "collapse_shape") :
        /\ Return("CollapseShapeOp::verify", op, CollapseShapeOpVerify(ops, op))
        /\ UNCHANGED <<ops, inp>>

NextReshape ==
    \/ CallComputeTensorReshapeCollapsedType
    \/ CallExpandShapeVerify
    \/ CallCollapseShapeVerify

SpecReshape == InitReshape /\ [][NextReshape]_vars

\* ------------------------------------------------------------------------
\* ConstantOpExtractSliceFolder
\* ------------------------------------------------------------------------
\* arith.constant dense<elements> : type. The elements are held in
\* row-major order; a splat constant is a SplatConstantOp.
DenseConstantOp(elements, type) == ConstantOp(elements, type)

\* *(values + offset) on the element iterator: position pos of the
\* attribute's elements counted from 0. A position outside the elements
\* is read from whatever lies next to them: oob.value.
DenseRead(elements, pos, oob) ==
    IF pos \in 0..(Len(elements) - 1)
    THEN [value |-> elements[pos + 1], outside |-> FALSE]
    ELSE [value |-> oob.value, outside |-> TRUE]

\* sliceElements(values, counts, offsets, sizes, strides, outValues): the
\* iterator `values` is the position it points at; from is the first of
\* the remaining dimensions and i the counter of the loop over it. The
\* result is what the loop appends to outValues.
RECURSIVE sliceElements(_, _, _, _, _, _, _, _, _)
sliceElements(elements, values, counts, offsets, sizes, strides, from, i, oob) ==
    IF from > Len(offsets) THEN <<>>
    ELSE IF i >= sizes[from] THEN <<>>
    ELSE LET offset == offsets[from] + i * strides[from]
         IN IF from = Len(offsets)
            THEN <<DenseRead(elements, values + offset, oob)>>
                 \o sliceElements(elements, values, counts, offsets, sizes,
                                  strides, from, i + 1, oob)
            ELSE sliceElements(elements, values + offset * counts[from], counts,
                               offsets, sizes, strides, from + 1, 0, oob)
                 \o sliceElements(elements, values, counts, offsets, sizes,
                                  strides, from, i + 1, oob)

\* The loop "count = count / v; counts.push_back(count)" over the source
\* shape, from position i on.
RECURSIVE SliceCounts(_, _, _)
SliceCounts(shape, count, i) ==
    IF i > Len(shape) THEN <<>>
    ELSE <<count \div shape[i]>> \o SliceCounts(shape, count \div shape[i], i + 1)

\* Mutant: the walk over a dimension ignores its stride.
ConstantOpExtractSliceFolder_unitstride(g, op, controlFn, oob) ==
    LET source == g[op].source
        sourceType == g[source].type
        resultType == g[op].type
        offsets == StaticEntries(g[op].offsets)
        sizes == StaticEntries(g[op].sizes)
        strides == StaticEntries(g[op].strides)
        failure == [status |-> "failure", post |-> g, created |-> NullOp]
    IN IF g[source].op # "constant" \/ ~hasStaticShape(sourceType)
          \/ ~hasStaticShape(resultType) \/ ~controlFn
          \/ getNumElements(sourceType.shape) = 0
          \/ \E k \in 1..Len(offsets) :
                kDynamic \in {offsets[k], sizes[k], strides[k]}
       THEN failure
       ELSE LET reads == sliceElements(g[source].value, 0,
                             SliceCounts(sourceType.shape,
                                         getNumElements(sourceType.shape), 1),
                             offsets, sizes, [k \in 1..Len(strides) |-> 1],
                             1, 0, oob)
            IN IF oob.trap /\ \E k \in 1..Len(reads) : reads[k].outside
               THEN [status |-> Trap, post |-> g, created |-> NullOp]
               ELSE [status |-> "success",
                     post |-> [g EXCEPT ![op] = DenseConstantOp(
                                 [k \in 1..Len(reads) |-> reads[k].value],
                                 resultType)],
                     created |-> op]

\* ConstantOpExtractSliceFolder::matchAndRewrite on the extract_slice op.
\* controlFn is the answer of the control function for op. m_Constant
\* binds a dense attribute; a splat fails the match. A read outside the
\* elements either stops the program (oob.trap) or yields oob.value.
ConstantOpExtractSliceFolder(g, op, controlFn, oob) ==
    LET source == g[op].source
        sourceType == g[source].type
        resultType == g[op].type
        offsets == StaticEntries(g[op].offsets)
        sizes == StaticEntries(g[op].sizes)
        strides == StaticEntries(g[op].strides)
        failure == [status |-> "failure", post |-> g, created |-> NullOp]
    IN IF g[source].op # "constant" \/ ~hasStaticShape(sourceType)
          \/ ~hasStaticShape(resultType) \/ ~controlFn
          \/ getNumElements(sourceType.shape) = 0
          \/ \E k \in 1..Len(offsets) :
                kDynamic \in {offsets[k], sizes[k], strides[k]}
       THEN failure
       ELSE LET reads == sliceElements(g[source].value, 0,
                             SliceCounts(sourceType.shape,
                                         getNumElements(sourceType.shape), 1),
                             offsets, sizes, strides, 1, 0, oob)
            IN IF oob.trap /\ \E k \in 1..Len(reads) : reads[k].outside
               THEN [status |-> Trap, post |-> g, created |-> NullOp]
               ELSE [status |-> "success",
                     post |-> [g EXCEPT ![op] = DenseConstantOp(
                                 [k \in 1..Len(reads) |-> reads[k].value],
                                 resultType)],
                     created |-> op]

\* ExtractSliceOp::verify: the result type is the inferred type or a
\* rank reduction of it.
ExtractSliceOpVerify(g, op) ==
    isRankReducedType(
        inferResultType(g[g[op].source].type, StaticEntries(g[op].offsets),
                        StaticEntries(g[op].sizes), StaticEntries(g[op].strides)),
        g[op].type) = "Success"

\* ------------------------------------------------------------------------
\* Specification of the constant slice folder: a graph holds a source
\* "c" (a dense constant, a splat or a block argument) and a verified
\* extract_slice "s" of it.
\* ------------------------------------------------------------------------
\* Largest rank of the sliced constant.
MaxConstSliceRank == 2

ConstSliceExtents == {2, 3}
ConstSliceOffsets == {IndexAttr(0), IndexAttr(1), ValueRef("n")}
ConstSliceSizes == {IndexAttr(1), IndexAttr(2)}
ConstSliceStrides == {IndexAttr(1), IndexAttr(2)}

\* The elements of the dense constant: all distinct.
ConstSliceElements(shape) == [k \in 1..getNumElements(shape) |-> 100 + k]

\* What a read outside the elements of the attribute can do.
DenseOutOfBounds ==
    {[trap |-> TRUE, value |-> 0], [trap |-> FALSE, value |-> 0],
     [trap |-> FALSE, value |-> 101]}

ConstSliceGraph(shape, offsets, sizes, strides, kind, reduce) ==
    LET sourceType == RankedTensorTypeGet(shape, "i32", 0)
        inferred == inferResultType(sourceType, StaticEntries(offsets),
                        StaticEntries(sizes), StaticEntries(strides))
    IN ("n" :> BlockArgument(IndexType))
       @@ ("c" :> CASE kind = "dense" ->
                         DenseConstantOp(ConstSliceElements(shape), sourceType)
                    [] kind = "splat" -> SplatConstantOp(7, sourceType)
                    [] OTHER -> BlockArgument(sourceType))
       @@ ("s" :> ExtractSliceOp("c", offsets, sizes, strides,
                      IF reduce
                      THEN inferCanonicalRankReducedResultType(
                               Len(shape) - 1, sourceType, StaticEntries(offsets),
                               StaticEntries(sizes), StaticEntries(strides))
                      ELSE inferred))

InitConstSlice ==
    /\ \E r \in 1..MaxConstSliceRank :
          \E shape \in [1..r -> ConstSliceExtents],
             offsets \in [1..r -> ConstSliceOffsets],
             sizes \in [1..r -> ConstSliceSizes],
             strides \in [1..r -> ConstSliceStrides],
             kind \in {"dense", "splat", "arg"},
             reduce \in BOOLEAN :
             /\ ops = ConstSliceGraph(shape, offsets, sizes, strides, kind, reduce)
             /\ ExtractSliceOpVerify(ops, "s")
    /\ inp = <<>>
    /\ ret = NoRet

ApplyConstantOpExtractSliceFolder ==
    \E controlFn \in BOOLEAN, oob \in DenseOutOfBounds :
        LET r == ConstantOpExtractSliceFolder(ops, "s", controlFn, oob)
        IN /\ ops["s"].op = "extract_slice"
           /\ ops' = r.post
           /\ Return("ConstantOpExtractSliceFolder", "s",
                     [status |-> r.status, pre |-> ops, created |-> r.created])
           /\ UNCHANGED inp

NextConstSlice == ApplyConstantOpExtractSliceFolder

SpecConstSlice == InitConstSlice /\ [][NextConstSlice]_vars

\* ------------------------------------------------------------------------
\* Specification of the insert-after-insert fold: a chain
\*   %i1 = tensor.insert_slice %s1 into %d  [..]
\*   %ik = tensor.insert_slice %sk into %i(k-1) [..]      (k = 2..n)
\* of verified inserts of 1x4 slices, given as tensor<1x4xf32> or rank
\* reduced as tensor<4xf32>, at the offsets [0, 0] or [0, %n]. The driver
\* folds an insert again for as long as its fold changes it in place.
\* ------------------------------------------------------------------------
\* Largest number of inserts in a chain.
MaxInsertChain == 3

InsertChainOp(k) == "i" \o ToString(k)
InsertChainSource(k) == "s" \o ToString(k)

InsertChainOffsets == {<<IndexAttr(0), IndexAttr(0)>>, <<IndexAttr(0), ValueRef("n")>>}
InsertChainSourceTypes ==
    {RankedTensorTypeGet(<<1, 4>>, "f32", 0), RankedTensorTypeGet(<<4>>, "f32", 0)}
InsertChainDestTypes ==
    {RankedTensorTypeGet(<<1, 4>>, "f32", 0), RankedTensorTypeGet(<<2, 4>>, "f32", 0)}

RECURSIVE InsertChain(_, _, _, _)
InsertChain(n, destType, offsets, sourceTypes) ==
    IF n = 0
    THEN ("n" :> BlockArgument(IndexType)) @@ ("d" :> BlockArgument(destType))
    ELSE (InsertChainSource(n) :> BlockArgument(sourceTypes[n]))
         @@ (InsertChainOp(n) :>
                InsertSliceOp(InsertChainSource(n),
                              IF n = 1 THEN "d" ELSE InsertChainOp(n - 1),
                              offsets[n], <<IndexAttr(1), IndexAttr(4)>>,
                              <<IndexAttr(1), IndexAttr(1)>>, destType))
         @@ InsertChain(n - 1, destType, offsets, sourceTypes)

InitInsertChain ==
    /\ \E n \in 1..MaxInsertChain :
          \E destType \in InsertChainDestTypes,
             offsets \in [1..n -> InsertChainOffsets],
             sourceTypes \in [1..n -> InsertChainSourceTypes] :
             /\ ops = InsertChain(n, destType, offsets, sourceTypes)
             /\ \A k \in 1..n : InsertSliceOpVerify(ops, InsertChainOp(k))
    /\ inp = <<>>
    /\ ret = NoRet

\* InsertSliceOp::fold is run on the insert op of the chain.
FoldInsertOfChain(op) ==
    LET r == InsertSliceOpFold(ops, op)
    IN /\ op \in OpsOfKind(ops, "insert_slice")
       /\ ops' = r.post
       /\ Return("InsertSliceOp::fold", op, [result |-> r.result, pre |-> ops])
       /\ UNCHANGED inp

NextInsertChain ==
    \E op \in OpsOfKind(ops, "insert_slice") : FoldInsertOfChain(op)

SpecInsertChain == InitInsertChain /\ [][NextInsertChain]_vars

\* The driver puts an op whose fold changed it in place back on its
\* worklist: a fold that still changes an insert is eventually run.
SpecInsertChainFair ==
    /\ SpecInsertChain
    /\ \A k \in 1..MaxInsertChain : WF_vars(FoldInsertOfChain(InsertChainOp(k)))

\* ------------------------------------------------------------------------
\* Specification of the static-shape specialization: a verified
\* tensor.empty %e or tensor.generate %gen whose size operands are the
\* runtime value %n or the constants 5 and -2.
\* ------------------------------------------------------------------------
SpecializeSizeValues ==
    ("n" :> BlockArgument(IndexType)) @@ ("c5" :> ConstantIndexOp(5))
    @@ ("cm" :> ConstantIndexOp(-2))

InitSpecialize ==
    /\ \E t \in RankedTypes(MaxPatternRank, PatternExtents, {"f32"}, Encodings) :
          \E sizes \in [1..getNumDynamicDims(t) -> DOMAIN SpecializeSizeValues] :
             \/ ops = SpecializeSizeValues @@ ("e" :> EmptyOp(sizes, t))
             \/ ops = SpecializeSizeValues @@ ("gen" :> GenerateOp(sizes, t))
    /\ inp = <<>>
    /\ ret = NoRet

NextSpecialize ==
    \/ ApplyReplaceEmptyTensorStaticShapeDims
    \/ ApplyStaticTensorGenerate

SpecSpecialize == InitSpecialize /\ [][NextSpecialize]_vars

\* ------------------------------------------------------------------------
\* Specification of the cast patterns run to a fixed point: the graphs
\* hold a verified tensor.empty %e, alone or with a cast %c of it, or a
\* tensor.insert_slice %i between casts, and the driver applies
\* ReplaceEmptyTensorStaticShapeDims, FoldEmptyTensorWithCastOp,
\* InsertSliceOpCastFolder, InsertSliceOpSourceCastInserter and
\* ChainedTensorCast for as long as one of them changes the graph.
\* ------------------------------------------------------------------------
InitCastPatterns ==
    /\ ops \in {g \in EmptyGraphs :
                   /\ EmptyOpVerify(g, "e")
                   /\ OpsOfKind(g, "expand_shape") \cup OpsOfKind(g, "collapse_shape") = {}}
               \cup InsertGraphs
    /\ inp = <<>>
    /\ ret = NoRet

NextCastPatterns ==
    \/ ApplyReplaceEmptyTensorStaticShapeDims
    \/ ApplyFoldEmptyTensorWithCastOp
    \/ ApplyInsertSliceOpCastFolder
    \/ ApplyInsertSliceOpSourceCastInserter
    \/ ApplyChainedTensorCast

SpecCastPatterns == InitCastPatterns /\ [][NextCastPatterns]_vars

\* The driver stops only when no pattern changes the graph any more.
SpecCastPatternsFair ==
    /\ SpecCastPatterns
    /\ WF_vars(NextCastPatterns /\ ops' # ops)

\* ------------------------------------------------------------------------
\* Specification of the type-level routines: the inputs are two arbitrary
\* tensor types a and b, the actions are the calls a client can make.
\* ------------------------------------------------------------------------
TypeInputs == TensorTypes(MaxRank, DimSet, ElementTypes, Encodings)

InitTypes ==
    /\ inp \in [a : TypeInputs, b : TypeInputs]
    /\ ops = <<>>
    /\ ret = NoRet

\* preservesStaticInformation(a, b)
CallPreserves ==
    /\ ~Called("preservesStaticInformation", "ab")
    /\ Record("preservesStaticInformation", "ab", preservesStaticInformation(inp.a, inp.b))
    /\ UNCHANGED <<ops, inp>>

\* preservesStaticInformation(b, a)
CallPreservesBack ==
    /\ ~Called("preservesStaticInformation", "ba")
    /\ Record("preservesStaticInformation", "ba", preservesStaticInformation(inp.b, inp.a))
    /\ UNCHANGED <<ops, inp>>

\* joinShapes(a, b); the routine asserts equal element types.
CallJoin ==
    /\ ~Called("joinShapes", "ab")
    /\ inp.a.elt = inp.b.elt
    /\ Record("joinShapes", "ab", joinShapes(inp.a, inp.b))
    /\ UNCHANGED <<ops, inp>>

\* joinShapes(b, a)
CallJoinBack ==
    /\ ~Called("joinShapes", "ba")
    /\ inp.a.elt = inp.b.elt
    /\ Record("joinShapes", "ba", joinShapes(inp.b, inp.a))
    /\ UNCHANGED <<ops, inp>>

NextTypes == CallPreserves \/ CallPreservesBack \/ CallJoin \/ CallJoinBack

SpecTypes == InitTypes /\ [][NextTypes]_vars

\* ------------------------------------------------------------------------
\* Properties of the type-level routines
\* ------------------------------------------------------------------------
PsiAB == Result("preservesStaticInformation", "ab")
PsiBA == Result("preservesStaticInformation", "ba")
JoinAB == Result("joinShapes", "ab")
JoinBA == Result("joinShapes", "ba")

SameRankedKind(s, t) ==
    hasRank(s) /\ hasRank(t) /\ s.elt = t.elt /\ getRank(s) = getRank(t)

\* C2: preservesStaticInformation(source, target) is true iff both types are
\* ranked, have the same element type and rank, and no dimension is static
\* in source and dynamic in target; it is false when either is unranked.
C2_PreservesIff ==
    Called("preservesStaticInformation", "ab") =>
        /\ PsiAB <=> ( /\ inp.a.kind = "ranked" /\ inp.b.kind = "ranked"
                       /\ inp.a.elt = inp.b.elt
                       /\ Len(inp.a.shape) = Len(inp.b.shape)
                       /\ \A i \in 1..Len(inp.a.shape) :
                             inp.b.shape[i] = kDynamic => inp.a.shape[i] = kDynamic )
        /\ (inp.a.kind = "unranked" \/ inp.b.kind = "unranked") => ~PsiAB

\* Witness of C2: the check was made on two different ranked shapes and held.
C2_Witness ==
    /\ Called("preservesStaticInformation", "ab")
    /\ PsiAB
    /\ inp.a.shape # inp.b.shape
    /\ Len(inp.a.shape) = 2

BothDirections ==
    /\ Called("preservesStaticInformation", "ab")
    /\ Called("preservesStaticInformation", "ba")
    /\ SameRankedKind(inp.a, inp.b)

\* a has a static extent where b is dynamic, and they agree elsewhere.
OnlyLosesStatic(a, b) ==
    /\ \E i \in 1..Len(a.shape) : a.shape[i] # kDynamic /\ b.shape[i] = kDynamic
    /\ \A i \in 1..Len(a.shape) : b.shape[i] # kDynamic => a.shape[i] = b.shape[i]

\* C3 as stated: for ranked S, T of one rank and element type both directions
\* of preservesStaticInformation hold iff the shapes are identical.
C3_Original ==
    BothDirections => ((PsiAB /\ PsiBA) <=> inp.a.shape = inp.b.shape)

\* C3 amended: the equivalence holds for shape-compatible S and T (per
\* dimension equal or at least one dynamic), and when S is static where T is
\* dynamic and they agree elsewhere only the direction T -> S holds.
C3_Antisymmetric ==
    BothDirections =>
        /\ verifyCompatibleShape(inp.a, inp.b) =>
               ((PsiAB /\ PsiBA) <=> inp.a.shape = inp.b.shape)
        /\ OnlyLosesStatic(inp.a, inp.b) => (~PsiAB /\ PsiBA)

\* Witness of C3: both directions were asked of two compatible, different
\* shapes and exactly one held.
C3_Witness ==
    /\ BothDirections
    /\ OnlyLosesStatic(inp.a, inp.b)
    /\ Len(inp.a.shape) = 2
    /\ ~PsiAB /\ PsiBA

\* C6: on two ranked types of equal rank joinShapes returns, per dimension,
\* the static extent when either input is static there and dynamic only when
\* both are dynamic; there is no result when the ranks differ or a dimension
\* has two different static extents.
C6_JoinPerDimension ==
    (Called("joinShapes", "ab") /\ hasRank(inp.a) /\ hasRank(inp.b)) =>
        LET sa == inp.a.shape
            sb == inp.b.shape
            conflict == /\ Len(sa) = Len(sb)
                        /\ \E i \in 1..Len(sa) :
                              sa[i] # kDynamic /\ sb[i] # kDynamic /\ sa[i] # sb[i]
        IN IF Len(sa) # Len(sb) \/ conflict
           THEN JoinAB = NullType
           ELSE /\ JoinAB.kind = "ranked"
                /\ Len(JoinAB.shape) = Len(sa)
                /\ \A i \in 1..Len(sa) :
                      /\ sa[i] # kDynamic => JoinAB.shape[i] = sa[i]
                      /\ sb[i] # kDynamic => JoinAB.shape[i] = sb[i]
                      /\ (sa[i] = kDynamic /\ sb[i] = kDynamic)
                            => JoinAB.shape[i] = kDynamic

\* Witness of C6: a join that takes a static extent from each side.
C6_Witness ==
    /\ Called("joinShapes", "ab")
    /\ hasRank(inp.a) /\ hasRank(inp.b)
    /\ Len(inp.a.shape) = 2 /\ Len(inp.b.shape) = 2
    /\ inp.a.shape[1] = kDynamic /\ inp.b.shape[1] # kDynamic
    /\ inp.a.shape[2] # kDynamic /\ inp.b.shape[2] = kDynamic
    /\ JoinAB = RankedTensorTypeGet(<<inp.b.shape[1], inp.a.shape[2]>>, inp.a.elt, 0)

\* C7: joinShapes is commutative: joinShapes(A, B) exists exactly when
\* joinShapes(B, A) does, and then they are the same type.
C7_JoinCommutative ==
    (Called("joinShapes", "ab") /\ Called("joinShapes", "ba")) =>
        /\ (JoinAB = NullType) <=> (JoinBA = NullType)
        /\ JoinAB = JoinBA

\* Witness of C7: both orders were joined on different ranked shapes and
\* the join exists.
C7_Witness ==
    /\ Called("joinShapes", "ab") /\ Called("joinShapes", "ba")
    /\ hasRank(inp.a) /\ hasRank(inp.b)
    /\ inp.a.shape # inp.b.shape
    /\ JoinAB # NullType
    /\ JoinAB.shape # inp.a.shape /\ JoinAB.shape # inp.b.shape

\* ------------------------------------------------------------------------
\* Properties of the cast patterns
\* ------------------------------------------------------------------------
CastsAndNull == OpsOfKind(ops, "cast") \cup {NullOp}

\* Type x is at least as static as type y: both ranked, same element type
\* and rank, and x is static wherever y is.
AtLeastAsStatic(x, y) ==
    /\ SameRankedKind(x, y)
    /\ \A i \in 1..Len(y.shape) : y.shape[i] # kDynamic => x.shape[i] # kDynamic

\* C4: for a cast from S to R canFoldIntoConsumerOp is true exactly when S is
\* at least as static as R and canFoldIntoProducerOp exactly when R is at
\* least as static as S; both are false for a null cast, and for a cast that
\* only loses static information the consumer check holds and the producer
\* check does not.
C4_CastChecksAsymmetric ==
    \A c \in CastsAndNull :
        LET S == ops[ops[c].source].type
            R == ops[c].type
        IN /\ Called("canFoldIntoConsumerOp", c) =>
                /\ Result("canFoldIntoConsumerOp", c)
                      <=> (c # NullOp /\ AtLeastAsStatic(S, R))
                /\ (c # NullOp /\ SameRankedKind(S, R) /\ OnlyLosesStatic(S, R))
                      => Result("canFoldIntoConsumerOp", c)
           /\ Called("canFoldIntoProducerOp", c) =>
                /\ Result("canFoldIntoProducerOp", c)
                      <=> (c # NullOp /\ AtLeastAsStatic(R, S))
                /\ (c # NullOp /\ SameRankedKind(S, R) /\ OnlyLosesStatic(S, R))
                      => ~Result("canFoldIntoProducerOp", c)

\* Witness of C4: the consumer check was made on a cast 8x16 -> ?x? and held.
C4_Witness ==
    \E c \in OpsOfKind(ops, "cast") :
        /\ Called("canFoldIntoConsumerOp", c)
        /\ ops[ops[c].source].type.shape = <<8, 16>>
        /\ ops[c].type.shape = <<kDynamic, kDynamic>>
        /\ Result("canFoldIntoConsumerOp", c)
        /\ ~canFoldIntoProducerOp(c)

\* Dimension i of type t has a static extent.
StaticAt(t, i) == hasRank(t) /\ i \in 1..Len(t.shape) /\ t.shape[i] # kDynamic

\* The intermediate type has a static extent that neither end has.
IntermediateAddsStatic(S, I, R) ==
    \E i \in 1..Len(I.shape) :
        StaticAt(I, i) /\ ~StaticAt(S, i) /\ ~StaticAt(R, i)

\* C5: ChainedTensorCast rewrites cast(cast(x : S -> I) : I -> R) into the
\* single cast(x : S -> R) iff join(join(S, I), R) exists and equals
\* join(S, R); when I has a static extent that neither S nor R has there is
\* no match and both casts remain, and ?x? -> 8x? -> 8x16 collapses to
\* ?x? -> 8x16.
C5_ChainedCastIffJoin ==
    \A c \in OpsOfKind(ops, "cast") :
        Called("ChainedTensorCast", c) =>
            LET r == Result("ChainedTensorCast", c)
                mid == r.pre[c].source
            IN r.pre[mid].op = "cast" =>
                 LET x == r.pre[mid].source
                     S == r.pre[x].type
                     I == r.pre[mid].type
                     R == r.pre[c].type
                     J3 == joinShapes(joinShapes(S, I), R)
                 IN /\ (r.status = "success")
                         <=> (J3 # NullType /\ J3 = joinShapes(S, R))
                    /\ r.status = "success" =>
                         /\ r.post[c] = CastOp(x, R)
                         /\ \A v \in DOMAIN r.pre \ {c} : r.post[v] = r.pre[v]
                    /\ r.status = "failure" => r.post = r.pre
                    /\ IntermediateAddsStatic(S, I, R) => r.status = "failure"
                    /\ ( /\ S.shape = <<kDynamic, kDynamic>>
                         /\ I.shape = <<8, kDynamic>>
                         /\ R.shape = <<8, 16>>
                         /\ S.enc = R.enc ) => r.status = "success"
                    /\ ops = r.post

\* Witness of C5: the chain ?x? -> 8x? -> 8x16 was collapsed.
C5_Witness ==
    /\ Called("ChainedTensorCast", "c2")
    /\ Result("ChainedTensorCast", "c2").status = "success"
    /\ Result("ChainedTensorCast", "c2").pre["x"].type.shape = <<kDynamic, kDynamic>>
    /\ Result("ChainedTensorCast", "c2").pre["c1"].type.shape = <<8, kDynamic>>
    /\ ops["c2"] = CastOp("x", RankedTensorTypeGet(<<8, 16>>, "f32", 0))

\* ------------------------------------------------------------------------
\* Properties of the extract folder
\* ------------------------------------------------------------------------
\* Row-major flattened index of idx in shape d: sum_i idx[i] * prod_{j>i} d[j].
RECURSIVE RowMajor(_, _, _)
RowMajor(d, idx, i) ==
    IF i > Len(d) THEN 0
    ELSE idx[i] * Product(d, i + 1) + RowMajor(d, idx, i + 1)

ExtractInRange(g) ==
    /\ g["t"].op = "from_elements"
    /\ \A i \in 1..Len(g["e"].indices) :
          /\ isConstant(g["e"].indices[i])
          /\ 0 <= g["e"].indices[i].n
          /\ g["e"].indices[i].n < g["t"].type.shape[i]

\* C1: ExtractOp::fold on a from_elements tensor with constant in-range
\* indices returns the element at the row-major flattened index; for shape
\* [2,3] index [1,2] folds to the element at flat index 5.
C1_ExtractRowMajor ==
    (Called("ExtractOp::fold", "e") /\ ExtractInRange(ops)) =>
        LET idx == [i \in 1..Len(ops["e"].indices) |-> ops["e"].indices[i].n]
        IN /\ Result("ExtractOp::fold", "e").kind = "value"
           /\ Result("ExtractOp::fold", "e").v =
                 ops["t"].elements[RowMajor(ops["t"].type.shape, idx, 1) + 1]

\* ------------------------------------------------------------------------
\* Properties of the rank-reduced type inference
\* ------------------------------------------------------------------------
InferredCanonical == Result("inferCanonicalRankReducedResultType", "inp")

NumUnitDims(shape) == Cardinality({i \in 1..Len(shape) : shape[i] = 1})

Min(a, b) == IF a < b THEN a ELSE b

\* shape without its k leading-most unit extents.
RECURSIVE DropLeadingUnits(_, _)
DropLeadingUnits(shape, k) ==
    IF shape = <<>> THEN <<>>
    ELSE IF Head(shape) = 1 /\ k > 0 THEN DropLeadingUnits(Tail(shape), k - 1)
    ELSE <<Head(shape)>> \o DropLeadingUnits(Tail(shape), k)

\* C8 as stated: with rankDiff > 0 the result is the inferred shape without
\* exactly rankDiff unit extents, the leading-most first, and has rank
\* desiredResultRank; with rankDiff <= 0 it is the inferred type unchanged.
C8_Original ==
    Called("inferCanonicalRankReducedResultType", "inp") =>
        LET rankDiff == Len(inp.sizes) - inp.desiredResultRank
        IN IF rankDiff > 0
           THEN /\ InferredCanonical.shape = DropLeadingUnits(inp.sizes, rankDiff)
                /\ Len(InferredCanonical.shape) = Len(inp.sizes) - rankDiff
                /\ Len(InferredCanonical.shape) = inp.desiredResultRank
           ELSE InferredCanonical = RankedTensorTypeGet(inp.sizes, "f32", 0)

\* C8 amended: with rankDiff > 0 the result is the inferred shape without
\* its leading-most min(rankDiff, number of unit extents) unit extents; it
\* has rank desiredResultRank iff the shape has at least rankDiff unit
\* extents ([1,6,1] to rank 2 gives [6,1]); with rankDiff <= 0 it is the
\* inferred type unchanged.
C8_DropsLeadingUnits ==
    Called("inferCanonicalRankReducedResultType", "inp") =>
        LET rankDiff == Len(inp.sizes) - inp.desiredResultRank
            dropped == Min(rankDiff, NumUnitDims(inp.sizes))
        IN IF rankDiff > 0
           THEN /\ InferredCanonical =
                      RankedTensorTypeGet(DropLeadingUnits(inp.sizes, dropped), "f32", 0)
                /\ Len(InferredCanonical.shape) = Len(inp.sizes) - dropped
                /\ (Len(InferredCanonical.shape) = inp.desiredResultRank)
                      <=> NumUnitDims(inp.sizes) >= rankDiff
                /\ (inp.sizes = <<1, 6, 1>> /\ inp.desiredResultRank = 2)
                      => InferredCanonical.shape = <<6, 1>>
           ELSE InferredCanonical = RankedTensorTypeGet(inp.sizes, "f32", 0)

\* Witness of C8: sizes [1,6,1] were reduced to rank 2 and gave [6,1].
C8_Witness ==
    /\ Called("inferCanonicalRankReducedResultType", "inp")
    /\ inp.sizes = <<1, 6, 1>>
    /\ inp.desiredResultRank = 2
    /\ InferredCanonical.shape = <<6, 1>>

\* ------------------------------------------------------------------------
\* Properties of the slice folders
\* ------------------------------------------------------------------------
\* The entry of a mixed list is the constant k, as an attribute or as a
\* value defined by a constant.
IsTheConstant(g, ofr, k) ==
    \/ ofr.k = "attr" /\ ofr.n = k
    \/ ofr.k = "value" /\ g[ofr.id].op = "constant" /\ g[ofr.id].value = k

\* Offsets all 0, sizes the full static shape of the type, strides all 1.
IdentityCoordinates(g, op, type) ==
    /\ hasStaticShape(type)
    /\ Len(g[op].sizes) = Len(type.shape)
    /\ \A i \in 1..Len(g[op].offsets) : IsTheConstant(g, g[op].offsets[i], 0)
    /\ \A i \in 1..Len(g[op].sizes) : IsTheConstant(g, g[op].sizes[i], type.shape[i])
    /\ \A i \in 1..Len(g[op].strides) : IsTheConstant(g, g[op].strides[i], 1)

ExtractSliceFolded == Result("ExtractSliceOp::fold", "e")

\* C9 as stated: ExtractSliceOp::fold returns the source value for every
\* extract_slice with offsets 0, sizes the full static source shape and
\* strides 1, whatever defines the source.
C9_Original ==
    ( /\ Called("ExtractSliceOp::fold", "e")
      /\ IdentityCoordinates(ops, "e", ops[ops["e"].source].type) ) =>
        /\ ExtractSliceFolded.result.kind = "value"
        /\ ExtractSliceFolded.result.v = ops["e"].source

\* C9 amended: for such an extract_slice whose result type equals its
\* source type the fold returns the source value, unless the source is a
\* splat constant: then it returns the splat attribute resized to the
\* result type.
C9_SliceIdentity ==
    ( /\ Called("ExtractSliceOp::fold", "e")
      /\ IdentityCoordinates(ops, "e", ops[ops["e"].source].type)
      /\ ops["e"].type = ops[ops["e"].source].type ) =>
        IF ops[ops["e"].source].op = "splat"
        THEN /\ ExtractSliceFolded.result.kind = "attr"
             /\ ExtractSliceFolded.result.v =
                   [splat |-> ops[ops["e"].source].value, type |-> ops["e"].type]
        ELSE /\ ExtractSliceFolded.result.kind = "value"
             /\ ExtractSliceFolded.result.v = ops["e"].source

\* Witness of C9: the identity slice of a rank-2 tensor defined by an
\* insert_slice folded to that tensor.
C9_Witness ==
    /\ Called("ExtractSliceOp::fold", "e")
    /\ IdentityCoordinates(ops, "e", ops["x"].type)
    /\ ops["e"].type = ops["x"].type
    /\ Len(ops["x"].type.shape) = 2
    /\ ops["x"].op = "insert_slice"
    /\ ExtractSliceFolded.result = FoldToValue("x")

InsertSliceFolded == Result("InsertSliceOp::fold", "y")

\* %y = insert_slice(extract_slice(X, off, sz, st), X, off, sz, st) in the
\* graph g.
RoundTrip(g) ==
    /\ g["y"].source = "e"
    /\ g["e"].source = g["y"].dest
    /\ g["e"].offsets = g["y"].offsets
    /\ g["e"].sizes = g["y"].sizes
    /\ g["e"].strides = g["y"].strides

\* The round trip is the static identity slice: the types of the slice and
\* of X are static and equal and the coordinates cover all of X.
StaticIdentityInsert(g) ==
    /\ g["e"].type = g["y"].type
    /\ IdentityCoordinates(g, "y", g["y"].type)

\* X is defined by an insert_slice with the coordinates of the round trip
\* whose inserted source has the type of the extracted slice.
SameInsertBelow(g) ==
    LET X == g["y"].dest
    IN /\ g[X].op = "insert_slice"
       /\ g[X].offsets = g["y"].offsets
       /\ g[X].sizes = g["y"].sizes
       /\ g[X].strides = g["y"].strides
       /\ g[g[X].source].type = g["e"].type

\* C10 as stated: InsertSliceOp::fold of the round trip yields X, whatever
\* defines X and whatever the offsets, sizes and strides.
C10_Original ==
    (Called("InsertSliceOp::fold", "y") /\ RoundTrip(InsertSliceFolded.pre)) =>
        /\ InsertSliceFolded.result.kind = "value"
        /\ InsertSliceFolded.result.v = InsertSliceFolded.pre["y"].dest

\* C10 amended: the fold of the round trip yields X and leaves the graph
\* alone, except that (a) for the static identity slice it yields the
\* extract_slice result, and otherwise (b) when X is an insert_slice with the
\* same coordinates and source type it re-points the destination of the
\* operation to that insert_slice's destination and returns the
\* operation's own result.
C10_RoundTrip ==
    (Called("InsertSliceOp::fold", "y") /\ RoundTrip(InsertSliceFolded.pre)) =>
        LET g == InsertSliceFolded.pre
            X == g["y"].dest
        IN /\ InsertSliceFolded.result.kind = "value"
           /\ IF StaticIdentityInsert(g)
              THEN InsertSliceFolded.result.v = "e" /\ ops = g
              ELSE IF SameInsertBelow(g)
              THEN /\ InsertSliceFolded.result.v = "y"
                   /\ ops = [g EXCEPT !["y"].dest = g[X].dest]
              ELSE InsertSliceFolded.result.v = X /\ ops = g

\* Witness of C10: a round trip through a rank-2 X defined by an
\* insert_slice at other offsets folded to X.
C10_Witness ==
    /\ Called("InsertSliceOp::fold", "y")
    /\ RoundTrip(InsertSliceFolded.pre)
    /\ Len(ops["x"].type.shape) = 2
    /\ ops["x"].op = "insert_slice"
    /\ ~StaticIdentityInsert(ops)
    /\ InsertSliceFolded.result = FoldToValue("x")
    /\ ops = InsertSliceFolded.pre

\* ------------------------------------------------------------------------
\* Properties of the gather and scatter verifiers
\* ------------------------------------------------------------------------
\* gather_dims / scatter_dims is well formed for a tensor of the given rank:
\* non-empty, every entry in [0, rank), strictly increasing.
DimsWellFormed(dims, rank) ==
    /\ Len(dims) > 0
    /\ \A k \in 1..Len(dims) : 0 <= dims[k] /\ dims[k] < rank
    /\ \A j, k \in 1..Len(dims) : j < k => dims[j] < dims[k]

Gathered(dims) == {dims[k] : k \in 1..Len(dims)}

\* The positions (1-based) of a tensor of the given rank that are not gathered.
RECURSIVE KeptPositions(_, _, _)
KeptPositions(dims, rank, i) ==
    IF i > rank THEN <<>>
    ELSE (IF (i - 1) \in Gathered(dims) THEN <<>> ELSE <<i>>)
         \o KeptPositions(dims, rank, i + 1)

\* The full form: the indices shape without its last dimension, then the
\* tensor's shape with every gathered dimension replaced by 1.
FullFormShape(tensorShape, indicesShape, dims) ==
    [i \in 1..(Len(indicesShape) - 1 + Len(tensorShape)) |->
        IF i < Len(indicesShape) THEN indicesShape[i]
        ELSE IF (i - Len(indicesShape)) \in Gathered(dims) THEN 1
        ELSE tensorShape[i - Len(indicesShape) + 1]]

\* The rank-reduced form: the gathered dimensions are dropped.
ReducedFormShape(tensorShape, indicesShape, dims) ==
    LET kept == KeptPositions(dims, Len(tensorShape), 1)
    IN  [i \in 1..(Len(indicesShape) - 1 + Len(kept)) |->
            IF i < Len(indicesShape) THEN indicesShape[i]
            ELSE tensorShape[kept[i - Len(indicesShape) + 1]]]

\* slice is one of the two inferred forms over tensor: same element type and
\* encoding as tensor, and the full or the rank-reduced shape.
IsInferredForm(slice, tensor, indices, dims) ==
    /\ slice.kind = "ranked"
    /\ slice.elt = tensor.elt
    /\ slice.enc = tensor.enc
    /\ \/ slice.shape = FullFormShape(tensor.shape, indices.shape, dims)
       \/ slice.shape = ReducedFormShape(tensor.shape, indices.shape, dims)

\* C11: GatherOp::verify accepts a tensor.gather exactly when gather_dims is
\* non-empty, strictly increasing and within [0, source rank), and the
\* declared result type is the full or the rank-reduced inferred form; for a
\* rank-3 source, indices [N, 2] and gather_dims [0, 2] the only accepted
\* result shapes are [N, 1, dim1, 1] and [N, dim1].
C11_GatherVerify ==
    Called("GatherOp::verify", "op") =>
        /\ Result("GatherOp::verify", "op") <=>
              /\ DimsWellFormed(inp.gather_dims, getRank(inp.source))
              /\ IsInferredForm(inp.result, inp.source, inp.indices, inp.gather_dims)
        /\ (/\ getRank(inp.source) = 3
            /\ Len(inp.indices.shape) = 2
            /\ inp.indices.shape[2] = 2
            /\ inp.gather_dims = <<0, 2>>) =>
              (Result("GatherOp::verify", "op") <=>
                  /\ inp.result.elt = inp.source.elt
                  /\ inp.result.enc = inp.source.enc
                  /\ inp.result.shape \in
                        {<<inp.indices.shape[1], 1, inp.source.shape[2], 1>>,
                         <<inp.indices.shape[1], inp.source.shape[2]>>})

\* A rank-3 source, indices [5, 2], gather_dims [0, 2] and the rank-reduced
\* result [5, dim1] with dim1 = 3: accepted.
C11_Witness ==
    /\ Called("GatherOp::verify", "op")
    /\ Result("GatherOp::verify", "op")
    /\ inp.source.shape = <<1, 3, 3>>
    /\ inp.indices.shape = <<5, 2>>
    /\ inp.gather_dims = <<0, 2>>
    /\ inp.result.shape = <<5, 3>>

\* C12: ScatterOp::verify fails for every tensor.scatter whose unique
\* attribute is not set, whatever its scatter_dims and types are.
C12_ScatterRequiresUnique ==
    (Called("ScatterOp::verify", "op") /\ ~inp.unique) =>
        ~Result("ScatterOp::verify", "op")

\* A scatter that is correct in everything but the unique attribute (its
\* dims are well formed and its source is an inferred form over dest) was
\* verified, and rejected.
C12_Witness ==
    /\ Called("ScatterOp::verify", "op")
    /\ ~inp.unique
    /\ DimsWellFormed(inp.scatter_dims, getRank(inp.dest))
    /\ IsInferredForm(inp.source, inp.dest, inp.indices, inp.scatter_dims)
    /\ ~Result("ScatterOp::verify", "op")

\* ------------------------------------------------------------------------
\* Properties of the pad verifier
\* ------------------------------------------------------------------------
\* The inferred padded extent of dimension i is dynamic: the source extent,
\* the static low or the static high width is.
InferredDynamic(i) ==
    \/ inp.source.shape[i] = kDynamic
    \/ inp.static_low[i] = kDynamic
    \/ inp.static_high[i] = kDynamic

PaddedExtent(i) == inp.source.shape[i] + inp.static_low[i] + inp.static_high[i]

\* C14: PadOp::verify succeeds exactly when every dimension either has a
\* dynamic inferred extent or a declared extent equal to source extent +
\* static low + static high; so a static declared extent passes unchecked
\* where the inferred one is dynamic, and a known inferred extent that
\* differs from the declared one (a dynamic declared one too) is rejected.
C14_PadVerify ==
    Called("PadOp::verify", "op") =>
        /\ Result("PadOp::verify", "op") <=>
              \A i \in 1..Len(inp.source.shape) :
                 InferredDynamic(i) \/ inp.result.shape[i] = PaddedExtent(i)
        /\ (\E i \in 1..Len(inp.source.shape) :
                /\ ~InferredDynamic(i)
                /\ inp.result.shape[i] # PaddedExtent(i))
              => ~Result("PadOp::verify", "op")

\* An accepted pad with a static declared extent over a dynamic inferred one
\* in dimension 0 and the checked extent 2 + 1 + 0 = 3 in dimension 1.
C14_Witness ==
    /\ Called("PadOp::verify", "op")
    /\ Result("PadOp::verify", "op")
    /\ inp.source.shape = <<kDynamic, 2>>
    /\ inp.static_low = <<0, 1>>
    /\ inp.static_high = <<0, 0>>
    /\ inp.result.shape = <<3, 3>>

\* ------------------------------------------------------------------------
\* Properties of FoldOrthogonalPaddings
\* ------------------------------------------------------------------------
IsZero(g, ofr) ==
    IF ofr.k = "attr" THEN ofr.n = 0
    ELSE g[ofr.id].op = "constant" /\ g[ofr.id].value = 0

IsOne(g, ofr) ==
    IF ofr.k = "attr" THEN ofr.n = 1
    ELSE g[ofr.id].op = "constant" /\ g[ofr.id].value = 1

\* The pad p of g pads dimension d (0-based): its low or its high width
\* there is not the constant 0.
PadsDim(g, p, d) ==
    /\ g[p].op = "pad"
    /\ d < Len(g[p].high)
    /\ ~IsZero(g, g[p].low[d + 1]) \/ ~IsZero(g, g[p].high[d + 1])

\* The chain pad(extract_slice(pad(extract_slice(x)))) below the pad p.
ChainBelow(g, p) ==
    LET is == g[p].source IN
    IF g[is].op # "extract_slice" THEN <<>> ELSE
    LET op == g[is].source IN
    IF g[op].op # "pad" THEN <<>> ELSE
    LET os == g[op].source IN
    IF g[os].op # "extract_slice" THEN <<>>
    ELSE <<[innerPad |-> p, innerSlice |-> is, outerPad |-> op, outerSlice |-> os]>>

\* The conditions the fusion of the chain c requires.
Fusable(g, c) ==
    LET rank == Len(g[c.innerPad].type.shape) IN
    \* disjoint padded dimensions
    /\ \A d \in 0..(rank - 1) :
          ~(PadsDim(g, c.innerPad, d) /\ PadsDim(g, c.outerPad, d))
    \* unit strides
    /\ \A s \in {c.innerSlice, c.outerSlice} :
          \A i \in 1..Len(g[s].strides) : IsOne(g, g[s].strides[i])
    \* zero low padding
    /\ \A q \in {c.innerPad, c.outerPad} :
          \A i \in 1..Len(g[q].low) : IsZero(g, g[q].low[i])
    \* equal constant padding values
    /\ g[g[c.innerPad].yield].op = "constant"
    /\ g[g[c.outerPad].yield].op = "constant"
    /\ g[g[c.innerPad].yield].value = g[g[c.outerPad].yield].value
    \* no rank reduction
    /\ Len(g[g[c.outerSlice].source].type.shape) = Len(g[c.outerSlice].type.shape)
    /\ Len(g[g[c.innerSlice].source].type.shape) = Len(g[c.innerSlice].type.shape)

\* The pad p of the graph `post` is the fusion of the chain c of `pre`: a pad
\* with the type of the old one over one new extract_slice of x.
Fused(pre, post, c) ==
    LET p == c.innerPad
        s == post[p].source
    IN  /\ post[p].op = "pad"
        /\ post[p].type = pre[p].type
        /\ s \notin DOMAIN pre
        /\ post[s].op = "extract_slice"
        /\ post[s].source = pre[c.outerSlice].source
        /\ \A v \in DOMAIN pre \ {p} : post[v] = pre[v]

\* C13: FoldOrthogonalPaddings fuses pad(extract_slice(pad(extract_slice
\* (x)))) into one extract_slice and one pad only when the two pads have
\* disjoint padded dimensions, the slices unit strides, the pads zero low
\* padding and equal constant padding values and no slice reduces the rank;
\* two pads that both pad dimension 0 are never fused: the pattern reports
\* no match and leaves the graph unchanged.
C13_OrthogonalPaddings ==
    \A p \in {"ip", "op"} :
        Called("FoldOrthogonalPaddings", p) =>
            LET call == Result("FoldOrthogonalPaddings", p)
                c == ChainBelow(call.pre, p)
            IN  /\ call.status = "success" =>
                      /\ c # <<>>
                      /\ Fusable(call.pre, c[1])
                      /\ Fused(call.pre, call.post, c[1])
                /\ (/\ c # <<>>
                    /\ PadsDim(call.pre, c[1].innerPad, 0)
                    /\ PadsDim(call.pre, c[1].outerPad, 0)) =>
                      /\ call.status = "failure"
                      /\ call.post = call.pre
                /\ call.status = "failure" => call.post = call.pre

\* Two pads padding dimension 0 (the outer one) and dimension 1 (the inner
\* one) only were fused.
C13_Witness ==
    /\ Called("FoldOrthogonalPaddings", "ip")
    /\ Result("FoldOrthogonalPaddings", "ip").status = "success"
    /\ LET pre == Result("FoldOrthogonalPaddings", "ip").pre
       IN  /\ Len(pre["ip"].type.shape) = 2
           /\ PadsDim(pre, "op", 0) /\ ~PadsDim(pre, "op", 1)
           /\ PadsDim(pre, "ip", 1) /\ ~PadsDim(pre, "ip", 0)
    /\ ops["ip"].source = "ip.slice"
    /\ ops["ip.slice"].source = "x"

\* ------------------------------------------------------------------------
\* Properties of the tensor.empty routines
\* ------------------------------------------------------------------------
\* The number of dynamic dimensions of shape before position i (1-based).
DynamicBefore(shape, i) == Cardinality({j \in 1..(i - 1) : shape[j] = kDynamic})

\* The value v of the graph g denotes the size given as the mixed entry ofr:
\* a constant of that integer, or that very value.
DenotesSize(g, v, ofr) ==
    IF ofr.k = "attr" THEN g[v].op = "constant" /\ g[v].value = ofr.n
    ELSE v = ofr.id

\* C15: EmptyOp::reifyResultShapes returns one value per dimension: for a
\* static dimension an index constant equal to its extent, for a dynamic
\* dimension the dynamic-size operand whose position is the number of
\* dynamic dimensions before it; dimension by dimension these are the sizes
\* EmptyOp::getMixedSizes returns.
C15_ReifyExtents ==
    \A e \in OpsOfKind(ops, "empty") :
        Called("EmptyOp::reifyResultShapes", e) =>
            LET call == Result("EmptyOp::reifyResultShapes", e)
                g == call.pre
                shape == g[e].type.shape
                mixed == EmptyOpGetMixedSizes(g, e)
            IN  /\ Len(call.values) = Len(shape)
                /\ \A i \in 1..Len(shape) :
                      /\ shape[i] # kDynamic =>
                            /\ ops[call.values[i]].op = "constant"
                            /\ ops[call.values[i]].value = shape[i]
                      /\ shape[i] = kDynamic =>
                            call.values[i] =
                                g[e].dynamicSizes[DynamicBefore(shape, i) + 1]
                      /\ DenotesSize(ops, call.values[i], mixed[i])

\* ------------------------------------------------------------------------
\* Properties of the folders
\* ------------------------------------------------------------------------
Folders ==
    {"DimOp::fold", "ExtractOp::fold", "InsertOp::fold", "RankOp::fold",
     "ExtractSliceOp::fold", "InsertSliceOp::fold", "PadOp::fold",
     "SplatOp::fold"}

\* What the call r of the folder fn returned.
FoldResult(fn, r) == IF fn = "ExtractOp::fold" THEN r ELSE r.result

\* The graphs g and h differ in nothing but the operand `field` of op.
OnlyOperandChanged(g, h, op, field) ==
    /\ DOMAIN h = DOMAIN g
    /\ \A v \in DOMAIN g \ {op} : h[v] = g[v]
    /\ h[op] = [g[op] EXCEPT ![field] = h[op][field]]

\* C16: a folder that returns no fold leaves the operation, its operands
\* and the rest of the graph as they were; a folder changes the graph only
\* by re-pointing an operand of its operation, only DimOp::fold (the source,
\* through foldTensorCast) and InsertSliceOp::fold (the destination) do so,
\* and only in calls that return the operation's own result.
C16_FoldersSpeculative ==
    [][\A call \in DOMAIN ret' :
          LET fn == call[1]
              op == call[2]
              result == FoldResult(fn, ret'[call])
          IN  /\ fn \in Folders
              /\ result.kind = "none" => ops' = ops
              /\ ops' # ops =>
                    /\ result.kind = "value"
                    /\ result.v = op
                    /\ \/ /\ fn = "DimOp::fold"
                          /\ OnlyOperandChanged(ops, ops', op, "source")
                       \/ /\ fn = "InsertSliceOp::fold"
                          /\ OnlyOperandChanged(ops, ops', op, "dest")
      ]_vars

\* DimOp::fold found no fold on a dim of a cast that does not fold into its
\* consumer, and the graph is as it was before the call.
C16_Witness ==
    /\ Called("DimOp::fold", "o")
    /\ Result("DimOp::fold", "o").result.kind = "none"
    /\ ops["o"].source = "c"
    /\ ops["o"].index = "c0"
    /\ ops = Result("DimOp::fold", "o").pre

\* ------------------------------------------------------------------------
\* Properties of the canonicalization patterns
\* ------------------------------------------------------------------------
Patterns ==
    {"ReplaceEmptyTensorStaticShapeDims", "StaticTensorGenerate",
     "FoldEmptyTensorWithReshapeOp", "FoldEmptyTensorWithCastOp",
     "InsertSliceOpCastFolder", "InsertSliceOpSourceCastInserter",
     "FoldOrthogonalPaddings"}

SpecializationPatterns ==
    {"ReplaceEmptyTensorStaticShapeDims", "StaticTensorGenerate",
     "InsertSliceOpSourceCastInserter"}

\* C18: after ReplaceEmptyTensorStaticShapeDims, StaticTensorGenerate or
\* InsertSliceOpSourceCastInserter rewrote an operation, the next
\* application of the same pattern to the operation it created reports
\* failure (no match).
C18_NoReapplication ==
    [][\A call \in DOMAIN ret :
          (call[1] \in SpecializationPatterns /\ ret[call].status = "success") =>
              \A next \in DOMAIN ret' :
                  (next[1] = call[1] /\ next[2] = ret[call].created) =>
                      ret'[next].status = "failure"
      ]_vars

\* ------------------------------------------------------------------------
\* Bounds check of the extract folder
\* ------------------------------------------------------------------------
\* The flat index ExtractOp::fold computes for the extract %e of the
\* from_elements %t with constant indices.
ComputedFlatIndex(g) ==
    FlatIndexLoop(g["t"].type.shape,
                  [i \in 1..Len(g["e"].indices) |-> g["e"].indices[i].n],
                  Len(g["t"].type.shape), 0, 1)

ExtractOfFromElements(g) ==
    /\ g["t"].op = "from_elements"
    /\ \A i \in 1..Len(g["e"].indices) : isConstant(g["e"].indices[i])

\* C19: ExtractOp::fold over a from_elements producer returns no fold when
\* the flat index it computed is negative or at least the number of
\* elements; what it returns otherwise is the element of the list at that
\* index, so it never reads outside the element list.
C19_ExtractInBounds ==
    (Called("ExtractOp::fold", "e") /\ ExtractOfFromElements(ops)) =>
        LET result == Result("ExtractOp::fold", "e")
            elements == ops["t"].elements
            flatIndex == ComputedFlatIndex(ops)
        IN  /\ (flatIndex < 0 \/ flatIndex >= Len(elements)) =>
                  result.kind = "none"
            /\ result.kind # "none" =>
                  /\ result.kind = "value"
                  /\ 0 <= flatIndex /\ flatIndex < Len(elements)
                  /\ result.v = elements[flatIndex + 1]

\* The folder declined a negative flat index: the indices [0, -1] into a
\* from_elements of shape [2, 3].
C19_Witness ==
    /\ Called("ExtractOp::fold", "e")
    /\ ExtractOfFromElements(ops)
    /\ ops["t"].type.shape = <<2, 3>>
    /\ ops["e"].indices = <<IndexAttr(0), IndexAttr(-1)>>
    /\ ComputedFlatIndex(ops) < 0
    /\ Result("ExtractOp::fold", "e").kind = "none"

\* ------------------------------------------------------------------------
\* Properties of the reassociative reshape ops
\* ------------------------------------------------------------------------
\* The product of the extents of the dimensions group[j..] of shape.
RECURSIVE GroupProduct(_, _, _)
GroupProduct(shape, group, j) ==
    IF j > Len(group) THEN 1
    ELSE shape[group[j] + 1] * GroupProduct(shape, group, j + 1)

\* The extent a group of dimensions collapses to.
GroupExtent(shape, group) ==
    IF \E j \in 1..Len(group) : shape[group[j] + 1] = kDynamic THEN kDynamic
    ELSE GroupProduct(shape, group, 1)

\* The declared collapsed type of the reshape op.
CollapsedTypeOf(g, op) ==
    IF g[op].op = "expand_shape" THEN g[g[op].source].type ELSE g[op].type

\* The declared collapsed type has one extent per group, the extent of
\* every group, and the element type of the expanded type.
MatchesGroups(g, op) ==
    LET expanded == ExpandedTypeOf(g, op)
        collapsed == CollapsedTypeOf(g, op)
        groups == g[op].reassociation
    IN  /\ Len(collapsed.shape) = Len(groups)
        /\ \A m \in 1..Len(groups) :
              collapsed.shape[m] = GroupExtent(expanded.shape, groups[m])
        /\ collapsed.elt = expanded.elt

\* C20: computeTensorReshapeCollapsedType returns one extent per
\* reassociation group, dynamic if a dimension of the group is dynamic and
\* the product of the group's static extents otherwise, with the element
\* type of the expanded type; ExpandShapeOp::verify and
\* CollapseShapeOp::verify succeed exactly when the declared collapsed type
\* has that shape and element type, whatever its encoding.
C20_CollapsedType ==
    /\ Called("computeTensorReshapeCollapsedType", "rs") =>
          LET type == Result("computeTensorReshapeCollapsedType", "rs")
              expanded == ExpandedTypeOf(ops, "rs")
              groups == ops["rs"].reassociation
          IN  /\ Len(type.shape) = Len(groups)
              /\ \A m \in 1..Len(groups) :
                    type.shape[m] = GroupExtent(expanded.shape, groups[m])
              /\ type.elt = expanded.elt
    /\ \A fn \in {"ExpandShapeOp::verify", "CollapseShapeOp::verify"} :
          Called(fn, "rs") => (Result(fn, "rs") <=> MatchesGroups(ops, "rs"))

\* collapse_shape of tensor<2x3xf32> with the one group [0, 1] into
\* tensor<6xf32> of another encoding was accepted.
C20_Witness ==
    /\ Called("CollapseShapeOp::verify", "rs")
    /\ Result("CollapseShapeOp::verify", "rs")
    /\ ops["t"].type.shape = <<2, 3>>
    /\ ops["rs"].reassociation = <<<<0, 1>>>>
    /\ ops["rs"].type.shape = <<6>>
    /\ ops["rs"].type.enc # ops["t"].type.enc

\* ------------------------------------------------------------------------
\* Properties of the static-shape specialization patterns
\* ------------------------------------------------------------------------
\* The position (1-based) in the operand list of the size of the dynamic
\* dimension i (1-based) of shape.
OperandOfDim(shape, i) == DynamicBefore(shape, i) + 1

\* The size operand of dimension i of the verified tensor.empty op of g is
\* defined by a constant.
ConstantSizeAt(g, op, i) ==
    /\ g[op].type.shape[i] = kDynamic
    /\ g[g[op].dynamicSizes[OperandOfDim(g[op].type.shape, i)]].op = "constant"

\* C21: on a verified tensor.empty, ReplaceEmptyTensorStaticShapeDims
\* matches exactly when a size operand is a constant; the new tensor.empty
\* has the constants written into their dimensions of the result type, the
\* other size operands in their order, as many size operands as dynamic
\* dimensions, and the original op has become a cast of the new op to the
\* original type.
C21_ReplaceEmptyStatic ==
    \A call \in DOMAIN ret :
        (call[1] = "ReplaceEmptyTensorStaticShapeDims"
         /\ EmptyOpVerify(ret[call].pre, call[2])) =>
            LET g == ret[call].pre
                op == call[2]
                shape == g[op].type.shape
                constantDims == {i \in 1..Len(shape) : ConstantSizeAt(g, op, i)}
                kept == SelectSeq(g[op].dynamicSizes,
                                  LAMBDA v : g[v].op # "constant")
                newOp == ret[call].created
            IN  /\ ret[call].status = "success" <=> constantDims # {}
                /\ ret[call].status = "success" =>
                      /\ ops[newOp].op = "empty"
                      /\ Len(ops[newOp].type.shape) = Len(shape)
                      /\ \A i \in 1..Len(shape) :
                            ops[newOp].type.shape[i] =
                                IF i \in constantDims
                                THEN g[g[op].dynamicSizes[OperandOfDim(shape, i)]].value
                                ELSE shape[i]
                      /\ ops[newOp].type.elt = g[op].type.elt
                      /\ ops[newOp].type.enc = g[op].type.enc
                      /\ ops[newOp].dynamicSizes = kept
                      /\ EmptyOpVerify(ops, newOp)
                      /\ ops[op] = CastOp(newOp, g[op].type)

\* ------------------------------------------------------------------------
\* C22
\* ------------------------------------------------------------------------
\* The multi-indices of a tensor of the given shape.
MultiIndices(shape) ==
    {idx \in [1..Len(shape) -> 0..3] : \A k \in 1..Len(shape) : idx[k] < shape[k]}

\* The calls of the pattern on a fully static slice of a dense constant
\* that the control function lets through.
StaticSliceOfDense(call) ==
    /\ call[1] = "ConstantOpExtractSliceFolder"
    /\ ret[call].status # "failure"

\* C22: ConstantOpExtractSliceFolder produces, for a fully static slice of
\* a dense non-splat constant with offsets o, sizes s and strides t,
\* exactly prod(s) elements in row-major order, and the output element at
\* multi-index i is the source element at multi-index (o_k + i_k * t_k).
C22_SliceElements ==
    \A call \in DOMAIN ret :
        StaticSliceOfDense(call) =>
            LET g == ret[call].pre
                op == call[2]
                shape == g[g[op].source].type.shape
                elements == g[g[op].source].value
                o == StaticEntries(g[op].offsets)
                s == StaticEntries(g[op].sizes)
                t == StaticEntries(g[op].strides)
            IN /\ ret[call].status = "success"
               /\ ops[op].op = "constant"
               /\ ops[op].type = g[op].type
               /\ Len(ops[op].value) = getNumElements(s)
               /\ \A i \in MultiIndices(s) :
                     LET at == [k \in 1..Len(s) |-> o[k] + i[k] * t[k]]
                     IN /\ \A k \in 1..Len(s) : at[k] < shape[k]
                        /\ ops[op].value[RowMajor(s, i, 1) + 1]
                               = elements[RowMajor(shape, at, 1) + 1]

\* The same statement for the slices that lie inside the constant.
C22_SliceElementsInBounds ==
    \A call \in DOMAIN ret :
        (/\ StaticSliceOfDense(call)
         /\ LET g == ret[call].pre
                op == call[2]
            IN \A k \in 1..Len(g[op].sizes) :
                  g[op].offsets[k].n + (g[op].sizes[k].n - 1) * g[op].strides[k].n
                      < g[g[op].source].type.shape[k]) =>
            LET g == ret[call].pre
                op == call[2]
                shape == g[g[op].source].type.shape
                elements == g[g[op].source].value
                o == StaticEntries(g[op].offsets)
                s == StaticEntries(g[op].sizes)
                t == StaticEntries(g[op].strides)
            IN /\ ret[call].status = "success"
               /\ ops[op] = DenseConstantOp(
                      [n \in 1..getNumElements(s) |->
                          LET i == CHOOSE i \in MultiIndices(s) :
                                      RowMajor(s, i, 1) + 1 = n
                          IN elements[RowMajor(shape,
                                 [k \in 1..Len(s) |-> o[k] + i[k] * t[k]], 1) + 1]],
                      g[op].type)

\* ------------------------------------------------------------------------
\* C23
\* ------------------------------------------------------------------------
\* The number of insert_slice operations from v along the destinations.
RECURSIVE InsertDepth(_, _)
InsertDepth(g, v) ==
    IF g[v].op = "insert_slice" THEN 1 + InsertDepth(g, g[v].dest) ELSE 0

\* The insert op and the producer of its destination have the same
\* offsets, sizes and strides and sources of the same type.
SameCoordinateInsert(g, op) ==
    /\ g[g[op].dest].op = "insert_slice"
    /\ g[g[op].dest].offsets = g[op].offsets
    /\ g[g[op].dest].sizes = g[op].sizes
    /\ g[g[op].dest].strides = g[op].strides
    /\ g[g[g[op].dest].source].type = g[g[op].source].type

\* The first branch of InsertSliceOp::fold: the insert overwrites all of
\* a destination of the static type of its source.
IdentityInsert(g, op) ==
    /\ hasStaticShape(g[op].type)
    /\ g[g[op].source].type = g[op].type
    /\ foldIdentityOffsetSizeAndStrideOpInterface(g, op, g[op].type)

\* The insert ops 1..n of the graph form a chain of same-coordinate
\* inserts.
SameCoordinateChain(g) ==
    \A op \in OpsOfKind(g, "insert_slice") :
        g[op].dest # "d" => SameCoordinateInsert(g, op)

LastOfChain(g) == InsertChainOp(Cardinality(OpsOfKind(g, "insert_slice")))

\* What a fold that re-points does, given when it does it.
RepointsWhen(when(_, _)) ==
    \A call \in DOMAIN ret :
        call[1] = "InsertSliceOp::fold" =>
            LET g == ret[call].pre
                op == call[2]
            IN /\ ops[op].dest # g[op].dest <=> when(g, op)
               /\ ops = [g EXCEPT ![op].dest = ops[op].dest]
               /\ ops[op].dest # g[op].dest =>
                     /\ ops[op].dest = g[g[op].dest].dest
                     /\ ret[call].result = FoldToValue(op)
                     /\ InsertDepth(ops, ops[op].dest) = InsertDepth(g, g[op].dest) - 1

OriginalRepoint(g, op) == SameCoordinateInsert(g, op)
AmendedRepoint(g, op) == SameCoordinateInsert(g, op) /\ ~IdentityInsert(g, op)

\* C23 as stated: the fold re-points the destination exactly when the
\* producer of the destination is an insert_slice of the same offsets,
\* sizes, strides and source type, and on a chain of n same-coordinate
\* inserts the last insert ends with the destination of the first.
C23_Original ==
    /\ [](RepointsWhen(OriginalRepoint))
    /\ SameCoordinateChain(ops) => <>[](ops[LastOfChain(ops)].dest = "d")

\* C23: InsertSliceOp::fold re-points the destination of an insert_slice
\* to the destination of the insert_slice that produced it exactly when
\* both have the same offsets, sizes, strides and source type and the
\* insert is not an identity insert (which folds to its source first);
\* the source and the coordinates are unchanged and every re-pointing
\* shortens the chain below the destination by one, so that on a chain of
\* n same-coordinate inserts that are not identity inserts the last insert
\* is re-pointed at most n-1 times and ends with the destination of the
\* first insert, where its fold re-points no more.
C23_InsertAfterInsert ==
    /\ [](RepointsWhen(AmendedRepoint))
    /\ (SameCoordinateChain(ops) /\ ~IdentityInsert(ops, LastOfChain(ops))) =>
           <>[](/\ ops[LastOfChain(ops)].dest = "d"
                /\ InsertSliceOpFold(ops, LastOfChain(ops)).post = ops)

\* The last insert of a chain of three same-coordinate inserts has been
\* re-pointed twice and has the destination of the first.
C23_Witness ==
    /\ Cardinality(OpsOfKind(ops, "insert_slice")) = 3
    /\ Called("InsertSliceOp::fold", "i3")
    /\ SameCoordinateChain(Result("InsertSliceOp::fold", "i3").pre)
    /\ Result("InsertSliceOp::fold", "i3").pre["i3"].dest = "i1"
    /\ ops["i3"].dest = "d"
    /\ ops["i2"].dest = "i1"

\* ------------------------------------------------------------------------
\* C24
\* ------------------------------------------------------------------------
\* The calls of DimOp::fold with a constant index i inside the rank of a
\* ranked source whose dimension i is dynamic.
DimOfDynamicDim(call) ==
    /\ call[1] = "DimOp::fold"
    /\ LET g == ret[call].pre
           op == call[2]
           index == ConstantOperand(g, g[op].index)
       IN /\ index # <<>>
          /\ g[g[op].source].type.kind = "ranked"
          /\ index[1].scalar \in 0..(getRank(g[g[op].source].type) - 1)
          /\ isDynamic(g[g[op].source].type.shape[index[1].scalar + 1])

\* C24: DimOp::fold with a constant index i on a ranked source whose
\* dimension i is dynamic returns, for a source produced by
\* tensor.generate, the dynamic-extent operand at the position that is the
\* number of dynamic dimensions of the result type before i; for a source
\* produced by an extract_slice of equal source and result rank with a
\* dynamic size i, that size operand; and for a rank-reducing
\* extract_slice it does not fold.
C24_DimFoldsOneStep ==
    \A call \in DOMAIN ret :
        DimOfDynamicDim(call) =>
            LET g == ret[call].pre
                source == g[g[call[2]].source]
                i == ConstantOperand(g, g[call[2]].index)[1].scalar
                before == Cardinality({j \in 1..i : isDynamic(source.type.shape[j])})
                result == ret[call].result
            IN /\ source.op = "generate" =>
                     /\ result = FoldToValue(source.dynamicExtents[before + 1])
                     /\ ops = g
               /\ (/\ source.op = "extract_slice"
                   /\ getRank(source.type) = getRank(g[source.source].type)
                   /\ ~isConstant(source.sizes[i + 1])) =>
                     /\ result = FoldToValue(source.sizes[i + 1].id)
                     /\ ops = g
               /\ (/\ source.op = "extract_slice"
                   /\ getRank(source.type) # getRank(g[source.source].type)) =>
                     /\ result = NoFold
                     /\ ops = g

\* The dim of the second dimension of a generate of two dynamic extents
\* folded to the second operand.
C24_Witness ==
    /\ Called("DimOp::fold", "o")
    /\ DimOfDynamicDim(<<"DimOp::fold", "o">>)
    /\ ops["o"].source = "gen"
    /\ ops["o"].index = "c1"
    /\ ops["gen"].dynamicExtents = <<"n", "m">>
    /\ Result("DimOp::fold", "o").result = FoldToValue("m")

\* ------------------------------------------------------------------------
\* C25
\* ------------------------------------------------------------------------
\* The calls of ChainedTensorCast on a cast of a cast, with the types of
\* the source, of the intermediate cast and of the result.
ChainOfCasts(call) ==
    /\ call[1] = "ChainedTensorCast"
    /\ getDefiningOp(ret[call].pre, ret[call].pre[call[2]].source, "cast") # NullOp

SourceTypeOf(call) ==
    ret[call].pre[ret[call].pre[ret[call].pre[call[2]].source].source].type
IntermediateTypeOf(call) == ret[call].pre[ret[call].pre[call[2]].source].type
ResultTypeOf(call) == ret[call].pre[call[2]].type

\* C25: in ChainedTensorCast, whenever the three-way join
\* joinShapes(joinShapes(S, I), R) exists, the two-way join
\* joinShapes(S, R) exists as well, for ranked and unranked source,
\* intermediate and result types: firstJoin is never compared with a
\* missing newJoin.
C25_TwoWayJoinExists ==
    \A call \in DOMAIN ret :
        ChainOfCasts(call) =>
            LET S == SourceTypeOf(call)
                I == IntermediateTypeOf(call)
                R == ResultTypeOf(call)
            IN /\ joinShapes(S, I) # NullType
               /\ joinShapes(joinShapes(S, I), R) # NullType =>
                     joinShapes(S, R) # NullType

\* The pattern ran on a chain from a ranked source over an unranked
\* intermediate type to a ranked result whose three-way join exists.
C25_Witness ==
    \E call \in DOMAIN ret :
        /\ ChainOfCasts(call)
        /\ hasRank(SourceTypeOf(call))
        /\ ~hasRank(IntermediateTypeOf(call))
        /\ hasRank(ResultTypeOf(call))
        /\ SourceTypeOf(call) # ResultTypeOf(call)
        /\ joinShapes(joinShapes(SourceTypeOf(call), IntermediateTypeOf(call)),
                      ResultTypeOf(call)) # NullType

\* ------------------------------------------------------------------------
\* C26
\* ------------------------------------------------------------------------
\* The calls of PadOp::fold on a verified pad that return its source.
PadFoldedToSource(call) ==
    /\ call[1] = "PadOp::fold"
    /\ LET g == ret[call].pre
           op == call[2]
       IN /\ PadOpVerify(g[g[op].source].type, StaticEntries(g[op].low),
                         StaticEntries(g[op].high), g[op].type)
          /\ ret[call].result.kind = "value"
          /\ ret[call].result.v = g[op].source

\* C26: whenever PadOp::fold replaces a verified pad operation by its
\* source, every low and high padding amount of the operation is the
\* static constant 0: there is no dynamic padding operand and no non-zero
\* static amount.
C26_FoldedPadAddsNothing ==
    \A call \in DOMAIN ret :
        PadFoldedToSource(call) =>
            LET pad == ret[call].pre[call[2]]
            IN \A i \in 1..Len(pad.low) :
                  /\ pad.low[i] = IndexAttr(0)
                  /\ pad.high[i] = IndexAttr(0)

\* ------------------------------------------------------------------------
\* C27
\* ------------------------------------------------------------------------
\* An extent of a well-formed tensor type.
WellFormedExtent(e) == e >= 0 \/ e = kDynamic

\* C27: for every value of the constant size operands, negative constants
\* included, the result type of the operation created by
\* ReplaceEmptyTensorStaticShapeDims and by StaticTensorGenerate has
\* every extent either a nonnegative static size or the dynamic sentinel.
C27_SpecializedTypeWellFormed ==
    \A call \in DOMAIN ret :
        (/\ call[1] \in {"ReplaceEmptyTensorStaticShapeDims", "StaticTensorGenerate"}
         /\ ret[call].status = "success") =>
            \A i \in 1..Len(ops[ret[call].created].type.shape) :
                WellFormedExtent(ops[ret[call].created].type.shape[i])

\* ------------------------------------------------------------------------
\* C28
\* ------------------------------------------------------------------------
\* C28: a DimOp with a constant index and a ranked source that passes
\* DimOp::verify has its index in [0, rank): DimOp::fold never queries a
\* dimension position outside the source shape on a verified operation.
C28_DimIndexInRange ==
    \A call \in DOMAIN ret :
        call[1] = "DimOp::fold" =>
            LET g == ret[call].pre
                op == call[2]
                index == ConstantOperand(g, g[op].index)
                type == g[g[op].source].type
            IN (index # <<>> /\ type.kind = "ranked" /\ DimOpVerify(g, op)) =>
                  /\ index[1].scalar \in 0..(getRank(type) - 1)
                  /\ ret[call].result.kind # "trap"

\* ------------------------------------------------------------------------
\* C29
\* ------------------------------------------------------------------------
\* The flattened index in exact integers, with the strides of the loop.
RECURSIVE ExactFlatIndex(_, _, _, _)
ExactFlatIndex(shape, indices, i, stride) ==
    IF i < 1 THEN 0
    ELSE LET stride2 == IF i < Len(shape) THEN stride * shape[i] ELSE stride
         IN indices[i] * stride2 + ExactFlatIndex(shape, indices, i - 1, stride2)

ExtractIndexValues(g) == [i \in 1..Len(g["e"].indices) |-> g["e"].indices[i].n]

ExtractReturnedElement ==
    /\ Called("ExtractOp::fold", "e")
    /\ ExtractOfFromElements(ops)
    /\ Result("ExtractOp::fold", "e").kind = "value"

\* C29 as stated: whenever ExtractOp::fold over a from_elements producer
\* returns an element, every constant index is within its own dimension,
\* for all index values, those of 2^(IntBits-1) or more included.
C29_Original ==
    ExtractReturnedElement =>
        \A i \in 1..Len(ops["e"].indices) :
            /\ 0 <= ops["e"].indices[i].n
            /\ ops["e"].indices[i].n < ops["t"].type.shape[i]

\* C29: ExtractOp::fold over a from_elements producer with constant
\* indices returns an element exactly when the flattened index, taken
\* modulo 2^IntBits as a signed int, is within [0, number of elements),
\* and it returns the element at that position; the indices themselves
\* need not be within their dimensions.
C29_FlatIndexModulo ==
    (Called("ExtractOp::fold", "e") /\ ExtractOfFromElements(ops)) =>
        LET flat == ToInt(ExactFlatIndex(ops["t"].type.shape, ExtractIndexValues(ops),
                                         Len(ops["t"].type.shape), 1))
            result == Result("ExtractOp::fold", "e")
        IN /\ result.kind = "value" <=> flat \in 0..(Len(ops["t"].elements) - 1)
           /\ result.kind = "value" => result.v = ops["t"].elements[flat + 1]

\* The fold returned the first element for the index 2^IntBits into a
\* tensor of three elements.
C29_Witness ==
    /\ ExtractReturnedElement
    /\ ops["t"].type.shape = <<3>>
    /\ ExtractIndexValues(ops) = <<Pow2(IntBits)>>
    /\ Result("ExtractOp::fold", "e").v = ops["t"].elements[1]

\* ------------------------------------------------------------------------
\* C30
\* ------------------------------------------------------------------------
\* The casts of the initial graphs; every other cast was inserted by a
\* pattern.
InitialCasts == {"c", "s", "d"}

\* No pattern matches an operation of the graph.
NoCastPatternMatches ==
    /\ \A op \in OpsOfKind(ops, "empty"), oob \in OutOfBounds(ops) :
          ReplaceEmptyTensorStaticShapeDims(ops, op, oob).status # "success"
    /\ \A op \in OpsOfKind(ops, "cast"), oob \in OutOfBounds(ops) :
          /\ FoldEmptyTensorWithCastOp(ops, op, oob).status # "success"
          /\ ChainedTensorCast(ops, op).status # "success"
    /\ \A op \in OpsOfKind(ops, "insert_slice") :
          /\ InsertSliceOpCastFolder(ops, op).status # "success"
          /\ InsertSliceOpSourceCastInserter(ops, op).status # "success"

\* A pattern that folds casts matched a cast that a pattern inserted.
InsertedCastUndone ==
    \E call \in DOMAIN ret :
        /\ ret[call].status = "success"
        /\ \/ /\ call[1] = "InsertSliceOpCastFolder"
              /\ ret[call].pre[call[2]].source \notin InitialCasts
              /\ ret[call].pre[ret[call].pre[call[2]].source].op = "cast"
              /\ ops[ret[call].created].source # ret[call].pre[call[2]].source
           \/ /\ call[1] = "FoldEmptyTensorWithCastOp"
              /\ call[2] \notin InitialCasts

\* C30: a cast inserted by InsertSliceOpSourceCastInserter is never folded
\* back by InsertSliceOpCastFolder, a cast inserted by
\* ReplaceEmptyTensorStaticShapeDims is never matched by
\* FoldEmptyTensorWithCastOp, and repeated application of these patterns
\* and ChainedTensorCast eventually reaches a state in which none of them
\* matches.
C30_CastPatternsTerminate ==
    /\ [](~InsertedCastUndone)
    /\ <>[]NoCastPatternMatches

====
